---- MODULE Spec2Model ----
(***************************************************************************)
(* Filesystem platform abstraction layer of libstd (pal/fs.rs) with its    *)
(* two backends, sys/unix/fs.rs and sys/windows/fs.rs.                     *)
(*                                                                         *)
(* Part I   OpenOptions flag resolution and File::open.                    *)
(* Part II  The directory tree, the native calls on it, and                *)
(*          remove_dir_all as a state machine with one step per native     *)
(*          call.                                                          *)
(*                                                                         *)
(* Flag words (c_int, DWORD, mode_t) are 32-bit vectors, written as the    *)
(* set of the positions of their set bits: | is \cup, & is \cap and ! is   *)
(* the complement in 0..31.                                                *)
(***************************************************************************)
EXTENDS Integers, Sequences, FiniteSets, TLC

VARIABLES
    backend,      \* "unix" | "windows": the backend linked into the build
    opts,         \* the OpenOptions value being configured
    files,        \* the file File::open is applied to: "absent" | "empty" | "data"
    openRes,      \* outcome of the last File::open
    fs,           \* the directory tree: physical path -> entry
    fs0,          \* the tree when remove_dir_all was called
    dtype,        \* whether the filesystem fills in dirent.d_type
    rm,           \* remove_dir_all: status, error, given path, call stack
    trace,        \* native calls issued by remove_dir_all, in order
    enumerated,   \* physical directories remove_dir_all opened a stream on
    ext,          \* number of steps the external process has taken
    rd,           \* a ReadDir, the native stream it owns and the DirEntry in hand
    cp,           \* a copy(from, to): the two files and the calls copy issued
    perm,         \* a FilePermissions value / attribute word and what was asked of it
    ln,           \* the symbolic links made by soft_link and the last read_link
    nc,           \* one operation's native calls: those issued, their results
    md,           \* a FileAttr, the platform it was taken on, the last time asked of it
    pm,           \* a Permissions value under PermissionsExt, and the width of mode_t
    rl,           \* one unix read_link: the stored target, the buffer, the calls made
    al            \* one unix copy between two paths that may name the same file

vars == <<backend, opts, files, openRes, fs, fs0, dtype, rm, trace, enumerated, ext,
          rd, cp, perm, ln, nc, md, pm, rl, al>>

\* the state of the operations of Parts VII and later
lateVars == <<nc, md, pm, rl, al>>

\* the state of the operations of Parts III to VI and later
palVars == <<rd, cp, perm, ln, lateVars>>

openVars == <<opts, files, openRes>>
treeVars == <<fs, fs0, dtype, rm, trace, enumerated, ext>>

Backends == {"unix", "windows"}

(***************************************************************************)
(* Bit vectors.                                                            *)
(***************************************************************************)
Word == 0..31
BitNot(x) == Word \ x

\* libc (Linux) open flags
O_RDONLY  == {}
O_WRONLY  == {0}
O_RDWR    == {1}
O_ACCMODE == {0, 1}
O_CREAT   == {6}
O_EXCL    == {7}
O_TRUNC   == {9}
O_APPEND  == {10}
O_CLOEXEC == {19}
EINVAL    == "EINVAL"

\* sys::c (Win32) access rights, creation dispositions and flags
GENERIC_READ       == {31}
GENERIC_WRITE      == {30}
FILE_WRITE_DATA    == {1}
FILE_GENERIC_WRITE == {1, 2, 4, 8, 17, 20}
FILE_SHARE_ALL     == {0, 1, 2}
FILE_FLAG_BACKUP_SEMANTICS   == {25}
FILE_FLAG_OPEN_REPARSE_POINT == {21}
SECURITY_SQOS_PRESENT        == {20}
OPEN_EXISTING     == "OPEN_EXISTING"
OPEN_ALWAYS       == "OPEN_ALWAYS"
TRUNCATE_EXISTING == "TRUNCATE_EXISTING"
CREATE_ALWAYS     == "CREATE_ALWAYS"
CREATE_NEW        == "CREATE_NEW"
ERROR_INVALID_PARAMETER == 87

None == [some |-> FALSE]
Some(v) == [some |-> TRUE, val |-> v]

Ok(v) == [ok |-> TRUE, val |-> v]
Err(e) == [ok |-> FALSE, err |-> e]

(***************************************************************************)
(* Part I.  OpenOptions                                                    *)
(***************************************************************************)
unix_OpenOptions_new ==
    [read |-> FALSE, write |-> FALSE, append |-> FALSE,
     truncate |-> FALSE, create |-> FALSE, create_new |-> FALSE,
     custom_flags |-> {}, mode |-> {1, 2, 4, 5, 7, 8}]

windows_OpenOptions_new ==
    [read |-> FALSE, write |-> FALSE, append |-> FALSE,
     truncate |-> FALSE, create |-> FALSE, create_new |-> FALSE,
     custom_flags |-> {}, access_mode |-> None, share_mode |-> FILE_SHARE_ALL,
     attributes |-> {}, security_qos_flags |-> {}]

OpenOptions_new(b) ==
    IF b = "unix" THEN unix_OpenOptions_new ELSE windows_OpenOptions_new

\* mutant: append without write is refused
unix_get_access_mode_append_needs_write(o) ==
    CASE  o.read /\ ~o.write /\ ~o.append -> Ok(O_RDONLY)
      [] ~o.read /\  o.write /\ ~o.append -> Ok(O_WRONLY)
      []  o.read /\  o.write /\ ~o.append -> Ok(O_RDWR)
      [] ~o.read /\  o.write /\  o.append -> Ok(O_WRONLY \cup O_APPEND)
      []  o.read /\  o.append             -> Ok(O_RDWR \cup O_APPEND)
      [] ~o.read /\ ~o.write              -> Err(EINVAL)

\* mutant: the access-mode bits of custom_flags replace the resolved ones
unix_get_access_mode_custom(o) ==
    CASE  o.custom_flags \cap O_ACCMODE # {} -> Ok(o.custom_flags \cap O_ACCMODE)
      []  o.custom_flags \cap O_ACCMODE = {} /\ o.append ->
              Ok((IF o.read THEN O_RDWR ELSE O_WRONLY) \cup O_APPEND)
      []  o.custom_flags \cap O_ACCMODE = {} /\ ~o.append /\ o.write ->
              Ok(IF o.read THEN O_RDWR ELSE O_WRONLY)
      []  o.custom_flags \cap O_ACCMODE = {} /\ ~o.append /\ ~o.write ->
              IF o.read THEN Ok(O_RDONLY) ELSE Err(EINVAL)

\* match (self.read, self.write, self.append)
unix_get_access_mode(o) ==
    CASE  o.read /\ ~o.write /\ ~o.append -> Ok(O_RDONLY)
      [] ~o.read /\  o.write /\ ~o.append -> Ok(O_WRONLY)
      []  o.read /\  o.write /\ ~o.append -> Ok(O_RDWR)
      [] ~o.read /\  o.append             -> Ok(O_WRONLY \cup O_APPEND)
      []  o.read /\  o.append             -> Ok(O_RDWR \cup O_APPEND)
      [] ~o.read /\ ~o.write /\ ~o.append -> Err(EINVAL)

\* match (self.write, self.append) at the head of get_creation_mode:
\* whether it returns the error
unix_creation_mode_invalid(o) ==
    CASE  o.write /\ ~o.append -> FALSE
      [] ~o.write /\ ~o.append -> o.truncate \/ o.create \/ o.create_new
      []  o.append             -> o.truncate /\ ~o.create_new

\* mutant: create_new does not override create and truncate
unix_get_creation_mode_create_wins(o) ==
    IF unix_creation_mode_invalid(o) THEN Err(EINVAL)
    ELSE Ok(CASE  o.create /\  o.truncate -> O_CREAT \cup O_TRUNC
              []  o.create /\ ~o.truncate /\ ~o.create_new -> O_CREAT
              [] ~o.create /\  o.truncate /\ ~o.create_new -> O_TRUNC
              [] ~o.create /\ ~o.truncate /\ ~o.create_new -> {}
              [] OTHER -> O_CREAT \cup O_EXCL)

unix_get_creation_mode(o) ==
    IF unix_creation_mode_invalid(o) THEN Err(EINVAL)
    ELSE Ok(CASE ~o.create /\ ~o.truncate /\ ~o.create_new -> {}
              []  o.create /\ ~o.truncate /\ ~o.create_new -> O_CREAT
              [] ~o.create /\  o.truncate /\ ~o.create_new -> O_TRUNC
              []  o.create /\  o.truncate /\ ~o.create_new -> O_CREAT \cup O_TRUNC
              []  o.create_new                             -> O_CREAT \cup O_EXCL)

\* match (self.read, self.write, self.append, self.access_mode)
windows_get_access_mode(o) ==
    CASE  o.access_mode.some -> Ok(o.access_mode.val)
      []  ~o.access_mode.some /\  o.read /\ ~o.write /\ ~o.append -> Ok(GENERIC_READ)
      []  ~o.access_mode.some /\ ~o.read /\  o.write /\ ~o.append -> Ok(GENERIC_WRITE)
      []  ~o.access_mode.some /\  o.read /\  o.write /\ ~o.append ->
              Ok(GENERIC_READ \cup GENERIC_WRITE)
      []  ~o.access_mode.some /\ ~o.read /\  o.append ->
              Ok(FILE_GENERIC_WRITE \cap BitNot(FILE_WRITE_DATA))
      []  ~o.access_mode.some /\  o.read /\  o.append ->
              Ok(GENERIC_READ \cup (FILE_GENERIC_WRITE \cap BitNot(FILE_WRITE_DATA)))
      []  ~o.access_mode.some /\ ~o.read /\ ~o.write /\ ~o.append ->
              Err(ERROR_INVALID_PARAMETER)

\* mutant: append with truncate is let through
windows_creation_mode_invalid_lax(o) ==
    ~o.write /\ ~o.append /\ (o.truncate \/ o.create \/ o.create_new)

windows_creation_mode_invalid(o) ==
    CASE  o.write /\ ~o.append -> FALSE
      [] ~o.write /\ ~o.append -> o.truncate \/ o.create \/ o.create_new
      []  o.append             -> o.truncate /\ ~o.create_new

windows_get_creation_mode(o) ==
    IF windows_creation_mode_invalid(o) THEN Err(ERROR_INVALID_PARAMETER)
    ELSE Ok(CASE ~o.create /\ ~o.truncate /\ ~o.create_new -> OPEN_EXISTING
              []  o.create /\ ~o.truncate /\ ~o.create_new -> OPEN_ALWAYS
              [] ~o.create /\  o.truncate /\ ~o.create_new -> TRUNCATE_EXISTING
              []  o.create /\  o.truncate /\ ~o.create_new -> CREATE_ALWAYS
              []  o.create_new                             -> CREATE_NEW)

windows_get_flags_and_attributes(o) ==
    o.custom_flags \cup o.attributes \cup o.security_qos_flags
      \cup (IF o.security_qos_flags # {} THEN SECURITY_SQOS_PRESENT ELSE {})
      \cup (IF o.create_new THEN FILE_FLAG_OPEN_REPARSE_POINT ELSE {})

(***************************************************************************)
(* The native open calls, on the one file File::open is applied to.  They  *)
(* return the set of outcomes the kernel may produce: [res, files].        *)
(***************************************************************************)
FileStates == {"absent", "empty", "data"}

\* open64(path, flags, mode).  O_TRUNC without write access is unspecified
\* by POSIX: the file may or may not be truncated.
open64(f, flags, mode) ==
    IF f = "absent"
    THEN IF O_CREAT \subseteq flags
         THEN {[res |-> Ok("fd"), files |-> "empty"]}
         ELSE {[res |-> Err("ENOENT"), files |-> f]}
    ELSE IF (O_CREAT \cup O_EXCL) \subseteq flags
         THEN {[res |-> Err("EEXIST"), files |-> f]}
         ELSE IF O_TRUNC \subseteq flags
              THEN IF (flags \cap O_ACCMODE) # O_RDONLY
                   THEN {[res |-> Ok("fd"), files |-> "empty"]}
                   ELSE {[res |-> Ok("fd"), files |-> "empty"],
                         [res |-> Ok("fd"), files |-> f]}
              ELSE {[res |-> Ok("fd"), files |-> f]}

\* CreateFileW(path, access, share, security, disposition, flags, NULL)
CreateFileW(f, access, disposition) ==
    CASE disposition = CREATE_NEW ->
            IF f = "absent" THEN {[res |-> Ok("handle"), files |-> "empty"]}
            ELSE {[res |-> Err("ERROR_FILE_EXISTS"), files |-> f]}
      [] disposition = CREATE_ALWAYS ->
            {[res |-> Ok("handle"), files |-> "empty"]}
      [] disposition = OPEN_EXISTING ->
            IF f = "absent" THEN {[res |-> Err("ERROR_FILE_NOT_FOUND"), files |-> f]}
            ELSE {[res |-> Ok("handle"), files |-> f]}
      [] disposition = OPEN_ALWAYS ->
            IF f = "absent" THEN {[res |-> Ok("handle"), files |-> "empty"]}
            ELSE {[res |-> Ok("handle"), files |-> f]}
      [] disposition = TRUNCATE_EXISTING ->
            IF f = "absent" THEN {[res |-> Err("ERROR_FILE_NOT_FOUND"), files |-> f]}
            ELSE IF GENERIC_WRITE \subseteq access
                 THEN {[res |-> Ok("handle"), files |-> "empty"]}
                 ELSE {[res |-> Err("ERROR_ACCESS_DENIED"), files |-> f]}

(***************************************************************************)
(* File::open.  The result records what flag resolution produced           *)
(* (access, creation), the native call that was issued, if any, the value *)
(* returned to the caller, and the file before and after the call.        *)
(***************************************************************************)
NoOpen == [status |-> "none"]

Rejected(am, cm, f) ==
    {[status |-> "done", access |-> am, creation |-> cm, native |-> None,
      res |-> IF ~am.ok THEN am ELSE cm, before |-> f, files |-> f]}

\* mutant: the creation mode is validated after open64 has been issued
unix_open_c_validate_late(o, f) ==
    LET am == unix_get_access_mode(o)
        cm == unix_get_creation_mode(o)
        cf == (IF o.create \/ o.create_new THEN O_CREAT ELSE {})
                \cup (IF o.create_new THEN O_EXCL ELSE {})
                \cup (IF o.truncate /\ ~o.create_new THEN O_TRUNC ELSE {})
    IN  IF ~am.ok THEN Rejected(am, cm, f)
        ELSE LET flags == O_CLOEXEC \cup am.val \cup cf
                            \cup (o.custom_flags \cap BitNot(O_ACCMODE))
             IN  {[status |-> "done", access |-> am, creation |-> cm,
                   native |-> Some([call |-> "open64", flags |-> flags, mode |-> o.mode]),
                   res |-> IF cm.ok THEN r.res ELSE cm,
                   before |-> f, files |-> r.files] : r \in open64(f, flags, o.mode)}

\* mutant: the custom flags are or-ed in without the !O_ACCMODE mask
unix_open_c_custom_unmasked(o, f) ==
    LET am == unix_get_access_mode(o)
        cm == unix_get_creation_mode(o)
    IN  IF ~am.ok \/ ~cm.ok THEN Rejected(am, cm, f)
        ELSE LET flags == O_CLOEXEC \cup am.val \cup cm.val \cup o.custom_flags
             IN  {[status |-> "done", access |-> am, creation |-> cm,
                   native |-> Some([call |-> "open64", flags |-> flags, mode |-> o.mode]),
                   res |-> r.res, before |-> f, files |-> r.files] : r \in open64(f, flags, o.mode)}

\* File::open_c: the ? on get_access_mode and get_creation_mode return
\* before open64 is reached.
unix_open_c(o, f) ==
    LET am == unix_get_access_mode(o)
        cm == unix_get_creation_mode(o)
    IN  IF ~am.ok \/ ~cm.ok THEN Rejected(am, cm, f)
        ELSE LET flags == O_CLOEXEC \cup am.val \cup cm.val
                            \cup (o.custom_flags \cap BitNot(O_ACCMODE))
             IN  {[status |-> "done", access |-> am, creation |-> cm,
                   native |-> Some([call |-> "open64", flags |-> flags, mode |-> o.mode]),
                   res |-> r.res, before |-> f, files |-> r.files] : r \in open64(f, flags, o.mode)}

\* File::open: the ? inside the argument list return before CreateFileW.
windows_open(o, f) ==
    LET am == windows_get_access_mode(o)
        cm == windows_get_creation_mode(o)
    IN  IF ~am.ok \/ ~cm.ok THEN Rejected(am, cm, f)
        ELSE {[status |-> "done", access |-> am, creation |-> cm,
               native |-> Some([call |-> "CreateFileW", access |-> am.val,
                                share |-> o.share_mode, disposition |-> cm.val,
                                flags |-> windows_get_flags_and_attributes(o)]),
               res |-> r.res, before |-> f, files |-> r.files] : r \in CreateFileW(f, am.val, cm.val)}

File_open(b, o, f) ==
    IF b = "unix" THEN unix_open_c(o, f) ELSE windows_open(o, f)

(***************************************************************************)
(* Values the extension fields are set to.                                 *)
(***************************************************************************)
CustomFlagValues(b) ==
    IF b = "unix" THEN {{}, O_RDWR, O_TRUNC}
    ELSE {{}, FILE_FLAG_BACKUP_SEMANTICS}
ModeValues       == {{1, 2, 4, 5, 7, 8}, {7, 8}}
AccessModeValues == {{}, GENERIC_READ}
ShareModeValues  == {FILE_SHARE_ALL, {}}
AttributeValues  == {{}, {1}}

(***************************************************************************)
(* Actions of Part I: the OpenOptions setters and File::open.              *)
(***************************************************************************)
Configure(o) ==
    /\ opts' = o
    /\ openRes' = NoOpen
    /\ UNCHANGED <<backend, palVars, files, treeVars>>

SetRead       == \E v \in BOOLEAN : Configure([opts EXCEPT !.read = v])
SetWrite      == \E v \in BOOLEAN : Configure([opts EXCEPT !.write = v])
SetAppend     == \E v \in BOOLEAN : Configure([opts EXCEPT !.append = v])
SetTruncate   == \E v \in BOOLEAN : Configure([opts EXCEPT !.truncate = v])
SetCreate     == \E v \in BOOLEAN : Configure([opts EXCEPT !.create = v])
SetCreateNew  == \E v \in BOOLEAN : Configure([opts EXCEPT !.create_new = v])
SetCustomFlags ==
    \E v \in CustomFlagValues(backend) : Configure([opts EXCEPT !.custom_flags = v])
SetMode ==
    /\ backend = "unix"
    /\ \E v \in ModeValues : Configure([opts EXCEPT !.mode = v])
SetAccessMode ==
    /\ backend = "windows"
    /\ \E v \in AccessModeValues : Configure([opts EXCEPT !.access_mode = Some(v)])
SetShareMode ==
    /\ backend = "windows"
    /\ \E v \in ShareModeValues : Configure([opts EXCEPT !.share_mode = v])
SetAttributes ==
    /\ backend = "windows"
    /\ \E v \in AttributeValues : Configure([opts EXCEPT !.attributes = v])

FileOpen ==
    /\ \E r \in File_open(backend, opts, files) :
          /\ openRes' = r
          /\ files' = r.files
    /\ UNCHANGED <<backend, palVars, opts, treeVars>>

(***************************************************************************)
(* Part II.  The directory tree                                            *)
(*                                                                         *)
(* fs maps a physical path (a sequence of names below the root <<>>) to    *)
(* the entry stored there.  A symbolic link stores its target verbatim, an *)
(* absolute path; flavor tells the Windows reparse points apart.           *)
(***************************************************************************)
Names    == {"a", "b"}
MaxDepth == 3
MaxEntries == 4
MaxSymlinks == 2

Paths == UNION {[1..n -> Names] : n \in 1..MaxDepth}
LinkTargets == {<<"a">>, <<"b">>}
\* remove_dir_all is called on /a; the tree is symmetric in the two names
RootPaths == {<<"a">>}

NoEntry   == [kind |-> "none", target |-> <<>>, flavor |-> ""]
DirEntry_ == [kind |-> "dir",  target |-> <<>>, flavor |-> ""]
RegEntry  == [kind |-> "file", target |-> <<>>, flavor |-> ""]
LinkEntry(t, fl) == [kind |-> "link", target |-> t, flavor |-> fl]

Lookup(f, p) ==
    IF p = <<>> THEN DirEntry_
    ELSE IF p \in DOMAIN f THEN f[p] ELSE NoEntry

Children(f, d) == {n \in Names : Lookup(f, d \o <<n>>).kind # "none"}

Entries(f) == {p \in DOMAIN f : f[p].kind # "none"}

IsPrefix(q, p) == Len(q) <= Len(p) /\ SubSeq(p, 1, Len(q)) = q

\* A link the kernel walks through when it stands for a directory.
Traversable(e) == e.flavor # "SymlinkFile"

(***************************************************************************)
(* Path resolution as the kernel does it: every component but the last is  *)
(* followed when it is a link; the last one is followed when follow holds  *)
(* (the path is then opened as a directory).                               *)
(***************************************************************************)
RECURSIVE Walk(_, _, _, _, _)
Walk(f, cur, rest, follow, fuel) ==
    IF rest = <<>> THEN Ok(cur)
    ELSE LET nxt  == cur \o <<Head(rest)>>
             e    == Lookup(f, nxt)
             last == Len(rest) = 1
         IN  CASE e.kind = "none" -> Err("ENOENT")
               [] e.kind = "link" /\ (~last \/ follow) ->
                      IF fuel = 0 THEN Err("ELOOP")
                      ELSE IF ~Traversable(e) THEN Err("ENOTDIR")
                      ELSE Walk(f, <<>>, e.target \o Tail(rest), follow, fuel - 1)
               [] e.kind = "link" /\ last /\ ~follow -> Ok(nxt)
               [] e.kind = "file" -> IF last THEN Ok(nxt) ELSE Err("ENOTDIR")
               [] e.kind = "dir"  -> Walk(f, nxt, Tail(rest), follow, fuel)

Resolve(f, p, follow) == Walk(f, <<>>, p, follow, MaxSymlinks)

(***************************************************************************)
(* Native calls on the tree.  inj is the failure the environment injects   *)
(* into the call ("" for none); a failed call leaves the tree unchanged.   *)
(* Each returns [res, fs, phys].                                           *)
(***************************************************************************)
NoFail    == ""
InjErrors == {"EACCES"}
Inj       == {NoFail} \cup InjErrors

Native(res, f, phys) == [res |-> res, fs |-> f, phys |-> phys]

\* lstat64 / GetFileInformationByHandle on a handle opened with
\* FILE_FLAG_OPEN_REPARSE_POINT: the entry itself, a final link not followed.
lstat(f, p, inj) ==
    LET r == Resolve(f, p, FALSE)
    IN  IF inj # NoFail THEN Native(Err(inj), f, <<>>)
        ELSE IF ~r.ok THEN Native(r, f, <<>>)
        ELSE Native(Ok(Lookup(f, r.val)), f, r.val)

\* opendir / FindFirstFileW(path\*): follows a final link.
opendir(f, p, inj) ==
    LET r == Resolve(f, p, TRUE)
    IN  IF inj # NoFail THEN Native(Err(inj), f, <<>>)
        ELSE IF ~r.ok THEN Native(r, f, <<>>)
        ELSE IF Lookup(f, r.val).kind # "dir" THEN Native(Err("ENOTDIR"), f, <<>>)
        ELSE Native(Ok(r.val), f, r.val)

Remove(f, phys) == [f EXCEPT ![phys] = NoEntry]

unlink(f, p, inj) ==
    LET r == Resolve(f, p, FALSE)
    IN  IF inj # NoFail THEN Native(Err(inj), f, <<>>)
        ELSE IF ~r.ok THEN Native(r, f, <<>>)
        ELSE IF Lookup(f, r.val).kind = "dir" THEN Native(Err("EISDIR"), f, r.val)
        ELSE Native(Ok("()"), Remove(f, r.val), r.val)

rmdir(f, p, inj) ==
    LET r == Resolve(f, p, FALSE)
    IN  IF inj # NoFail THEN Native(Err(inj), f, <<>>)
        ELSE IF ~r.ok THEN Native(r, f, <<>>)
        ELSE IF Lookup(f, r.val).kind # "dir" THEN Native(Err("ENOTDIR"), f, r.val)
        ELSE IF r.val = <<>> THEN Native(Err("EBUSY"), f, r.val)
        ELSE IF Children(f, r.val) # {} THEN Native(Err("ENOTEMPTY"), f, r.val)
        ELSE Native(Ok("()"), Remove(f, r.val), r.val)

\* DeleteFileW removes files and file symlinks, never a directory, a
\* directory symlink or a junction.
DeleteFileW(f, p, inj) ==
    LET r == Resolve(f, p, FALSE)
        e == Lookup(f, r.val)
    IN  IF inj # NoFail THEN Native(Err(inj), f, <<>>)
        ELSE IF ~r.ok THEN Native(r, f, <<>>)
        ELSE IF e.kind = "file" \/ (e.kind = "link" /\ e.flavor = "SymlinkFile")
             THEN Native(Ok("()"), Remove(f, r.val), r.val)
        ELSE Native(Err("ERROR_ACCESS_DENIED"), f, r.val)

\* RemoveDirectoryW removes an empty directory, or a directory symlink or
\* junction itself.
RemoveDirectoryW(f, p, inj) ==
    LET r == Resolve(f, p, FALSE)
        e == Lookup(f, r.val)
    IN  IF inj # NoFail THEN Native(Err(inj), f, <<>>)
        ELSE IF ~r.ok THEN Native(r, f, <<>>)
        ELSE IF e.kind = "link" /\ e.flavor \in {"SymlinkDir", "Junction"}
             THEN Native(Ok("()"), Remove(f, r.val), r.val)
        ELSE IF e.kind # "dir" THEN Native(Err("ERROR_DIRECTORY"), f, r.val)
        ELSE IF r.val = <<>> THEN Native(Err("ERROR_ACCESS_DENIED"), f, r.val)
        ELSE IF Children(f, r.val) # {} THEN Native(Err("ERROR_DIR_NOT_EMPTY"), f, r.val)
        ELSE Native(Ok("()"), Remove(f, r.val), r.val)

(***************************************************************************)
(* File types.                                                             *)
(***************************************************************************)
S_IFDIR == "S_IFDIR"
S_IFREG == "S_IFREG"
S_IFLNK == "S_IFLNK"
DT_UNKNOWN == "DT_UNKNOWN"

\* st_mode & S_IFMT of an entry, as lstat64 reports it
unix_st_mode(e) ==
    CASE e.kind = "dir"  -> S_IFDIR
      [] e.kind = "file" -> S_IFREG
      [] e.kind = "link" -> S_IFLNK

unix_is_dir(ft)     == ft = S_IFDIR
unix_is_file(ft)    == ft = S_IFREG
unix_is_symlink(ft) == ft = S_IFLNK

FILE_ATTRIBUTE_DIRECTORY     == {4}
FILE_ATTRIBUTE_REPARSE_POINT == {10}
IO_REPARSE_TAG_SYMLINK     == "IO_REPARSE_TAG_SYMLINK"
IO_REPARSE_TAG_MOUNT_POINT == "IO_REPARSE_TAG_MOUNT_POINT"
NoTag == "0"

\* dwFileAttributes and the reparse tag of an entry, as the filesystem stores them
windows_attributes(e) ==
    CASE e.kind = "dir"  -> FILE_ATTRIBUTE_DIRECTORY
      [] e.kind = "file" -> {}
      [] e.kind = "link" /\ e.flavor = "SymlinkFile" -> FILE_ATTRIBUTE_REPARSE_POINT
      [] e.kind = "link" /\ e.flavor # "SymlinkFile" ->
             FILE_ATTRIBUTE_DIRECTORY \cup FILE_ATTRIBUTE_REPARSE_POINT

windows_reparse_tag(e) ==
    CASE e.kind = "link" /\ e.flavor = "Junction" -> IO_REPARSE_TAG_MOUNT_POINT
      [] e.kind = "link" /\ e.flavor # "Junction" -> IO_REPARSE_TAG_SYMLINK
      [] OTHER -> NoTag

\* mutant: a mount-point tag makes a junction with or without the directory bit
FileType_new_junction_file(attrs, reparse_tag) ==
    LET dir     == attrs \cap FILE_ATTRIBUTE_DIRECTORY # {}
        reparse == attrs \cap FILE_ATTRIBUTE_REPARSE_POINT # {}
    IN  CASE ~dir /\ ~reparse -> "File"
          []  dir /\ ~reparse -> "Dir"
          [] ~dir /\ reparse /\ reparse_tag = IO_REPARSE_TAG_SYMLINK -> "SymlinkFile"
          []  dir /\ reparse /\ reparse_tag = IO_REPARSE_TAG_SYMLINK -> "SymlinkDir"
          [] reparse /\ reparse_tag = IO_REPARSE_TAG_MOUNT_POINT -> "MountPoint"
          [] OTHER -> "ReparsePoint"

\* FileType::new(attrs, reparse_tag)
FileType_new(attrs, reparse_tag) ==
    LET dir     == attrs \cap FILE_ATTRIBUTE_DIRECTORY # {}
        reparse == attrs \cap FILE_ATTRIBUTE_REPARSE_POINT # {}
    IN  CASE ~dir /\ ~reparse -> "File"
          []  dir /\ ~reparse -> "Dir"
          [] ~dir /\ reparse /\ reparse_tag = IO_REPARSE_TAG_SYMLINK -> "SymlinkFile"
          []  dir /\ reparse /\ reparse_tag = IO_REPARSE_TAG_SYMLINK -> "SymlinkDir"
          []  dir /\ reparse /\ reparse_tag = IO_REPARSE_TAG_MOUNT_POINT -> "MountPoint"
          [] OTHER -> "ReparsePoint"

windows_is_dir(ft)         == ft = "Dir"
windows_is_file(ft)        == ft = "File"
windows_is_symlink(ft)     == ft \in {"SymlinkFile", "SymlinkDir", "MountPoint"}
windows_is_symlink_dir(ft) == ft \in {"SymlinkDir", "MountPoint"}

(***************************************************************************)
(* symlink_metadata(path).file_type(), as Ok(file type) or Err.            *)
(***************************************************************************)
unix_symlink_metadata(f, p, inj) ==
    LET n == lstat(f, p, inj)
    IN  IF n.res.ok THEN Ok(unix_st_mode(n.res.val)) ELSE n.res

\* Fs::symlink_metadata opens the path with access_mode(0) and
\* FILE_FLAG_BACKUP_SEMANTICS | FILE_FLAG_OPEN_REPARSE_POINT, then calls
\* File::metadata, which reads the reparse tag with DeviceIoControl and
\* leaves it 0 when that call fails (tagFail).
windows_symlink_metadata(f, p, inj, tagFail) ==
    LET o  == [windows_OpenOptions_new EXCEPT
                 !.access_mode = Some({}),
                 !.custom_flags = FILE_FLAG_BACKUP_SEMANTICS
                                    \cup FILE_FLAG_OPEN_REPARSE_POINT]
        am == windows_get_access_mode(o)
        cm == windows_get_creation_mode(o)
        n  == lstat(f, p, inj)
    IN  IF ~am.ok THEN am
        ELSE IF ~cm.ok THEN cm
        ELSE IF ~n.res.ok THEN n.res
        ELSE LET attrs == windows_attributes(n.res.val)
                 tag   == IF attrs \cap FILE_ATTRIBUTE_REPARSE_POINT # {} /\ ~tagFail
                          THEN windows_reparse_tag(n.res.val)
                          ELSE NoTag
             IN  Ok(FileType_new(attrs, tag))

(***************************************************************************)
(* Operations that build the tree: DirBuilder::create, File::create,       *)
(* soft_link / symlink_inner and symlink_junction_inner.                   *)
(***************************************************************************)
RmIdle == [status |-> "idle", err |-> "", path |-> <<>>, pc |-> "", stack |-> <<>>,
           open |-> {}]

\* the physical place a new entry named by p goes to, or <<>> when the
\* native call fails (no such parent, or the entry exists)
NewPlace(f, p) ==
    LET r == Resolve(f, SubSeq(p, 1, Len(p) - 1), TRUE)
    IN  IF r.ok /\ Lookup(f, r.val).kind = "dir"
           /\ (r.val \o <<p[Len(p)]>>) \in DOMAIN f
           /\ Lookup(f, r.val \o <<p[Len(p)]>>).kind = "none"
        THEN r.val \o <<p[Len(p)]>>
        ELSE <<>>

Build(p, e) ==
    /\ rm.status = "idle"
    /\ Cardinality(Entries(fs)) < MaxEntries
    /\ LET place == NewPlace(fs, p)
       IN  /\ place # <<>>
           /\ fs' = [fs EXCEPT ![place] = e]
    /\ UNCHANGED <<backend, palVars, openVars, fs0, dtype, rm, trace, enumerated, ext>>

DirBuilder_create == \E p \in Paths : Build(p, DirEntry_)

File_create == \E p \in Paths : Build(p, RegEntry)

unix_soft_link ==
    /\ backend = "unix"
    /\ \E src \in LinkTargets, dst \in Paths : Build(dst, LinkEntry(src, "Symlink"))

symlink_inner ==
    /\ backend = "windows"
    /\ \E src \in LinkTargets, dst \in Paths, dir \in BOOLEAN :
          Build(dst, LinkEntry(src, IF dir THEN "SymlinkDir" ELSE "SymlinkFile"))

symlink_junction_inner ==
    /\ backend = "windows"
    /\ \E target \in LinkTargets, junction \in Paths :
          Build(junction, LinkEntry(target, "Junction"))

(***************************************************************************)
(* remove_dir_all: one step per native call.  A frame of the stack is one  *)
(* activation of remove_dir_all_recursive: its path, the directory its     *)
(* stream reads (dirp), the names the stream has returned (seen), the      *)
(* child in hand, and where the activation stands (pc).  rm.open holds the *)
(* activations (by depth) whose directory stream is open.                  *)
(***************************************************************************)
\* mutant: the stream of a finished loop stays open
Drop_ReadDir_leak(open, depth) == open

\* Drop for Dir (closedir) / for FindNextFileHandle (FindClose): the ReadDir
\* of the activation at this depth goes out of scope
Drop_ReadDir(open, depth) == open \ {depth}

\* mutant: an activation issues its remove_dir before reading the directory
Frame_remove_first(p) ==
    [path |-> p, dirp |-> <<>>, seen |-> {}, child |-> "", pc |-> "remove_dir"]

Frame(p) == [path |-> p, dirp |-> <<>>, seen |-> {}, child |-> "", pc |-> "read_dir"]

Top == rm.stack[Len(rm.stack)]
WithTop(fr) == [rm.stack EXCEPT ![Len(rm.stack)] = fr]
ChildPath(fr) == fr.path \o <<fr.child>>

Call(name, p, n) ==
    [call |-> name, path |-> p, phys |-> n.phys, ok |-> n.res.ok,
     err |-> IF n.res.ok THEN "" ELSE n.res.err]

\* mutant: the error is recorded and the loop goes on
Failed_keep_going(e) == [rm EXCEPT !.err = e]

\* `?`: the error leaves every activation; their streams are dropped.
Failed(e) == [rm EXCEPT !.status = "err", !.err = e, !.pc = "", !.stack = <<>>,
                        !.open = {}]

Running == rm.status = "running"
At(pc)  == Running /\ rm.stack # <<>> /\ Top.pc = pc

\* DirEntry::file_type where the entry carries the type: the d_type
\* (unix), or FileType::new(dwFileAttributes, dwReserved0) (windows)
unix_d_type(e, supported) == IF supported THEN unix_st_mode(e) ELSE DT_UNKNOWN

windows_DirEntry_file_type(e) ==
    FileType_new(windows_attributes(e), windows_reparse_tag(e))

\* mutant: a symbolic link is recursed into like a directory
unix_branch_follow_links(stack, fr, ft) ==
    IF unix_is_dir(ft) \/ unix_is_symlink(ft)
    THEN Append([stack EXCEPT ![Len(stack)] = [fr EXCEPT !.pc = "next"]],
                Frame(ChildPath(fr)))
    ELSE [stack EXCEPT ![Len(stack)] = [fr EXCEPT !.pc = "remove_file"]]

\* the branch of the loop body, once child.file_type() is known
unix_branch(stack, fr, ft) ==
    IF unix_is_dir(ft)
    THEN Append([stack EXCEPT ![Len(stack)] = [fr EXCEPT !.pc = "next"]],
                Frame(ChildPath(fr)))
    ELSE [stack EXCEPT ![Len(stack)] = [fr EXCEPT !.pc = "remove_file"]]

windows_branch(stack, fr, ft) ==
    IF windows_is_dir(ft)
    THEN Append([stack EXCEPT ![Len(stack)] = [fr EXCEPT !.pc = "next"]],
                Frame(ChildPath(fr)))
    ELSE IF windows_is_symlink_dir(ft)
    THEN [stack EXCEPT ![Len(stack)] = [fr EXCEPT !.pc = "remove_dir_child"]]
    ELSE [stack EXCEPT ![Len(stack)] = [fr EXCEPT !.pc = "remove_file"]]

\* Fs::remove_dir_all up to the branch on filetype.is_symlink()
root_is_symlink(b, ft) ==
    IF b = "unix" THEN unix_is_symlink(ft) ELSE windows_is_symlink(ft)

remove_dir_all ==
    /\ rm.status = "idle"
    /\ \E p \in RootPaths, inj \in Inj, tagFail \in BOOLEAN :
          LET r == IF backend = "unix" THEN unix_symlink_metadata(fs, p, inj)
                   ELSE windows_symlink_metadata(fs, p, inj, tagFail)
              n == lstat(fs, p, inj)
          IN  /\ backend = "unix" => ~tagFail
              /\ trace' = <<[call |-> "symlink_metadata", path |-> p, phys |-> n.phys,
                             ok |-> r.ok, err |-> IF r.ok THEN "" ELSE r.err]>>
              /\ rm' = IF ~r.ok THEN [Failed(r.err) EXCEPT !.path = p]
                       ELSE IF root_is_symlink(backend, r.val)
                       THEN [rm EXCEPT !.status = "running", !.path = p,
                                       !.pc = "remove_link"]
                       ELSE [rm EXCEPT !.status = "running", !.path = p,
                                       !.pc = "recursive", !.stack = <<Frame(p)>>]
    /\ fs0' = fs
    /\ UNCHANGED <<backend, palVars, openVars, fs, dtype, enumerated, ext>>

\* the symlink branch: Fs::remove_file(path) (unix), Fs::remove_dir(path) (windows)
remove_link ==
    /\ Running /\ rm.pc = "remove_link"
    /\ \E inj \in Inj :
          LET n == IF backend = "unix" THEN unlink(fs, rm.path, inj)
                   ELSE RemoveDirectoryW(fs, rm.path, inj)
          IN  /\ trace' = Append(trace, Call(IF backend = "unix" THEN "remove_file"
                                             ELSE "remove_dir", rm.path, n))
              /\ fs' = n.fs
              /\ rm' = IF n.res.ok THEN [rm EXCEPT !.status = "ok", !.pc = ""]
                       ELSE Failed(n.res.err)
    /\ UNCHANGED <<backend, palVars, openVars, fs0, dtype, enumerated, ext>>

\* Fs::read_dir(path)?
read_dir ==
    /\ At("read_dir")
    /\ \E inj \in Inj :
          LET n == opendir(fs, Top.path, inj)
          IN  /\ trace' = Append(trace, Call("read_dir", Top.path, n))
              /\ rm' = IF n.res.ok
                       THEN [rm EXCEPT !.stack = WithTop([Top EXCEPT !.dirp = n.phys,
                                                                     !.pc = "next"]),
                                       !.open = @ \cup {Len(rm.stack)}]
                       ELSE Failed(n.res.err)
              /\ enumerated' = IF n.res.ok THEN enumerated \cup {n.phys} ELSE enumerated
    /\ UNCHANGED <<backend, palVars, openVars, fs, fs0, dtype, ext>>

\* ReadDir::next, which passes over "." and "..", then child? and
\* child.file_type() when the entry carries the type.  The stream returns
\* the entries in any order; None ends the loop and drops the stream.
next_None ==
    /\ At("next")
    /\ Children(fs, Top.dirp) \ Top.seen = {}
    /\ trace' = Append(trace, [call |-> "next", path |-> Top.path, phys |-> Top.dirp,
                               ok |-> TRUE, err |-> ""])
    /\ rm' = [rm EXCEPT !.stack = WithTop([Top EXCEPT !.pc = "remove_dir"]),
                       !.open = Drop_ReadDir(rm.open, Len(rm.stack))]
    /\ UNCHANGED <<backend, palVars, openVars, fs, fs0, dtype, enumerated, ext>>

next_Err ==
    /\ At("next")
    /\ \E inj \in InjErrors :
          /\ trace' = Append(trace, [call |-> "next", path |-> Top.path,
                                     phys |-> Top.dirp, ok |-> FALSE, err |-> inj])
          /\ rm' = Failed(inj)
    /\ UNCHANGED <<backend, palVars, openVars, fs, fs0, dtype, enumerated, ext>>

next_Some ==
    /\ At("next")
    /\ \E c \in Children(fs, Top.dirp) \ Top.seen :
          LET e  == Lookup(fs, Top.dirp \o <<c>>)
              fr == [Top EXCEPT !.child = c, !.seen = @ \cup {c}]
          IN  /\ trace' = Append(trace, [call |-> "next", path |-> fr.path \o <<c>>,
                                         phys |-> Top.dirp \o <<c>>, ok |-> TRUE,
                                         err |-> ""])
              /\ rm' = [rm EXCEPT !.stack =
                          IF backend = "windows"
                          THEN windows_branch(rm.stack, fr, windows_DirEntry_file_type(e))
                          ELSE IF unix_d_type(e, dtype) # DT_UNKNOWN
                          THEN unix_branch(rm.stack, fr, unix_d_type(e, dtype))
                          ELSE WithTop([fr EXCEPT !.pc = "file_type"])]
    /\ UNCHANGED <<backend, palVars, openVars, fs, fs0, dtype, enumerated, ext>>

\* child.file_type()? on DT_UNKNOWN: Fs::symlink_metadata(&self.path())
file_type ==
    /\ At("file_type")
    /\ \E inj \in Inj :
          LET r == unix_symlink_metadata(fs, ChildPath(Top), inj)
              n == lstat(fs, ChildPath(Top), inj)
          IN  /\ trace' = Append(trace, [call |-> "file_type", path |-> ChildPath(Top),
                                         phys |-> n.phys, ok |-> r.ok,
                                         err |-> IF r.ok THEN "" ELSE r.err])
              /\ rm' = IF r.ok
                       THEN [rm EXCEPT !.stack = unix_branch(rm.stack, Top, r.val)]
                       ELSE Failed(r.err)
    /\ UNCHANGED <<backend, palVars, openVars, fs, fs0, dtype, enumerated, ext>>

\* Fs::remove_file(&child.path())?
remove_file ==
    /\ At("remove_file")
    /\ \E inj \in Inj :
          LET n == IF backend = "unix" THEN unlink(fs, ChildPath(Top), inj)
                   ELSE DeleteFileW(fs, ChildPath(Top), inj)
          IN  /\ trace' = Append(trace, Call("remove_file", ChildPath(Top), n))
              /\ fs' = n.fs
              /\ rm' = IF n.res.ok
                       THEN [rm EXCEPT !.stack = WithTop([Top EXCEPT !.pc = "next"])]
                       ELSE Failed(n.res.err)
    /\ UNCHANGED <<backend, palVars, openVars, fs0, dtype, enumerated, ext>>

\* windows: Fs::remove_dir(&child.path())? on a directory symlink or junction
remove_dir_child ==
    /\ At("remove_dir_child")
    /\ \E inj \in Inj :
          LET n == RemoveDirectoryW(fs, ChildPath(Top), inj)
          IN  /\ trace' = Append(trace, Call("remove_dir", ChildPath(Top), n))
              /\ fs' = n.fs
              /\ rm' = IF n.res.ok
                       THEN [rm EXCEPT !.stack = WithTop([Top EXCEPT !.pc = "next"])]
                       ELSE Failed(n.res.err)
    /\ UNCHANGED <<backend, palVars, openVars, fs0, dtype, enumerated, ext>>

\* Fs::remove_dir(path), the last call of remove_dir_all_recursive; its Ok
\* returns to the caller's loop, or out of remove_dir_all.
remove_dir ==
    /\ At("remove_dir")
    /\ \E inj \in Inj :
          LET n == IF backend = "unix" THEN rmdir(fs, Top.path, inj)
                   ELSE RemoveDirectoryW(fs, Top.path, inj)
              rest == SubSeq(rm.stack, 1, Len(rm.stack) - 1)
          IN  /\ trace' = Append(trace, Call("remove_dir", Top.path, n))
              /\ fs' = n.fs
              /\ rm' = IF ~n.res.ok THEN Failed(n.res.err)
                       ELSE IF rest = <<>>
                       THEN [rm EXCEPT !.status = "ok", !.pc = "", !.stack = <<>>]
                       ELSE [rm EXCEPT !.stack = rest]
    /\ UNCHANGED <<backend, palVars, openVars, fs0, dtype, enumerated, ext>>

(***************************************************************************)
(* Part III.  ReadDir and DirEntry                                         *)
(*                                                                         *)
(* The native directory stream is the sequence of names readdir64_r /      *)
(* FindFirstFileW, FindNextFileW return, "." and ".." among them, each a   *)
(* sequence of character codes.  rd is the ReadDir made by Fs::read_dir,   *)
(* with what has been observed of it.                                      *)
(***************************************************************************)
MaxStream        == 3
MaxNextCalls     == 5
MaxFileTypeCalls == 3

Dot == 46
NUL == 0

\* ".", "..", ".a", "..a", "..."
EntryNames == {<<Dot>>, <<Dot, Dot>>, <<Dot, 97>>, <<Dot, Dot, 97>>, <<Dot, Dot, Dot>>}

NativeStreams ==
    UNION {{s \in [1..n -> EntryNames] : \A i, j \in 1..n : s[i] = s[j] => i = j}
           : n \in 0..MaxStream}

\* what an entry of the stream is, as the filesystem stores it
EntryKinds == {DirEntry_, RegEntry, LinkEntry(<<"a">>, "SymlinkDir")}

NoReadDir ==
    [state |-> "none", stream |-> <<>>, pos |-> 0, first |-> None, yielded |-> <<>>,
     last |-> "", done |-> FALSE, erred |-> FALSE, calls |-> 0, released |-> 0,
     lateReads |-> 0, entry |-> None, ftCalls |-> 0, queries |-> 0, ft |-> ""]

\* name_bytes() != b"." && name_bytes() != b".."
unix_is_real_entry(name) == name # <<Dot>> /\ name # <<Dot, Dot>>

\* cFileName: the name, NUL-terminated in a zeroed buffer
cFileName(name) == name \o <<NUL, NUL, NUL>>

\* mutant: every name that starts with a dot is taken for a pseudo-entry
windows_DirEntry_new_any_dot(name) ==
    IF cFileName(name)[1] = Dot THEN None ELSE Some(name)

\* DirEntry::new: None on &[46, 0, ..] and &[46, 46, 0, ..] of cFileName[0..3]
windows_DirEntry_new(name) ==
    LET c == SubSeq(cFileName(name), 1, 3)
    IN  IF (c[1] = Dot /\ c[2] = NUL) \/ (c[1] = Dot /\ c[2] = Dot /\ c[3] = NUL)
        THEN None
        ELSE Some(name)

\* the loop of ReadDir::next over the native reads: fail is the read of this
\* call (1, 2, ...) that returns an error, 0 for none; n counts the reads made
RECURSIVE unix_ReadDir_next(_, _, _, _)
unix_ReadDir_next(s, pos, fail, n) ==
    IF fail = n + 1 THEN [res |-> "Err", pos |-> pos, reads |-> n + 1, name |-> <<>>]
    ELSE IF pos = Len(s) THEN [res |-> "None", pos |-> pos, reads |-> n + 1, name |-> <<>>]
    ELSE IF unix_is_real_entry(s[pos + 1])
    THEN [res |-> "Ok", pos |-> pos + 1, reads |-> n + 1, name |-> s[pos + 1]]
    ELSE unix_ReadDir_next(s, pos + 1, fail, n + 1)

RECURSIVE windows_FindNext_loop(_, _, _, _)
windows_FindNext_loop(s, pos, fail, n) ==
    IF fail = n + 1 THEN [res |-> "Err", pos |-> pos, reads |-> n + 1, name |-> <<>>]
    ELSE IF pos = Len(s) THEN [res |-> "None", pos |-> pos, reads |-> n + 1, name |-> <<>>]
    ELSE IF windows_DirEntry_new(s[pos + 1]).some
    THEN [res |-> "Ok", pos |-> pos + 1, reads |-> n + 1, name |-> s[pos + 1]]
    ELSE windows_FindNext_loop(s, pos + 1, fail, n + 1)

\* mutant: the entry FindFirstFileW returned is kept in self.first
windows_ReadDir_next_keeps_first(r, fail) ==
    IF r.first.some /\ windows_DirEntry_new(r.first.val).some
    THEN [res |-> "Ok", pos |-> r.pos, reads |-> 0, name |-> r.first.val, first |-> r.first]
    ELSE [first |-> None] @@ windows_FindNext_loop(r.stream, r.pos, fail, 0)

\* ReadDir::next: self.first.take() is looked at before FindNextFileW
windows_ReadDir_next(r, fail) ==
    IF r.first.some /\ windows_DirEntry_new(r.first.val).some
    THEN [res |-> "Ok", pos |-> r.pos, reads |-> 0, name |-> r.first.val, first |-> None]
    ELSE [first |-> None] @@ windows_FindNext_loop(r.stream, r.pos, fail, 0)

\* mutant: closedir is called once more
closedir_again(r) == [r EXCEPT !.released = @ + 2]

\* closedir / FindClose on the handle the ReadDir owns
closedir(r) == [r EXCEPT !.released = @ + 1]

\* Fs::read_dir: opendir, or FindFirstFileW which returns the first entry
\* and fails on a stream with no entry at all
Fs_read_dir ==
    /\ rd.state = "none"
    /\ rd' = IF backend = "unix" THEN [rd EXCEPT !.state = "open"]
             ELSE IF rd.stream = <<>> THEN [rd EXCEPT !.state = "failed"]
             ELSE [rd EXCEPT !.state = "open", !.first = Some(rd.stream[1]), !.pos = 1]
    /\ UNCHANGED <<backend, openVars, treeVars, cp, perm, ln, lateVars>>

ReadDir_next ==
    /\ rd.state = "open"
    /\ rd.calls < MaxNextCalls
    /\ \E fail \in 0..(MaxStream + 1), e \in EntryKinds :
          LET o == IF backend = "unix"
                   THEN [first |-> None] @@ unix_ReadDir_next(rd.stream, rd.pos, fail, 0)
                   ELSE windows_ReadDir_next(rd, fail)
          IN  /\ fail <= o.reads
              /\ rd' = [rd EXCEPT
                          !.pos = o.pos,
                          !.first = o.first,
                          !.last = o.res,
                          !.calls = @ + 1,
                          !.done = @ \/ o.res = "None",
                          !.erred = @ \/ o.res = "Err",
                          !.lateReads = IF rd.released > 0 THEN @ + o.reads ELSE @,
                          !.yielded = IF o.res = "Ok" THEN Append(@, o.name) ELSE @,
                          !.entry = IF o.res = "Ok" THEN Some([name |-> o.name, e |-> e])
                                    ELSE @,
                          !.ftCalls = IF o.res = "Ok" THEN 0 ELSE @,
                          !.queries = IF o.res = "Ok" THEN 0 ELSE @,
                          !.ft = IF o.res = "Ok" THEN "" ELSE @]
    /\ UNCHANGED <<backend, openVars, treeVars, cp, perm, ln, lateVars>>

\* mutant: the type found by symlink_metadata is kept in the entry
unix_DirEntry_file_type_cached(r) ==
    LET e == r.entry.val.e
        t == unix_d_type(e, dtype)
    IN  IF t # DT_UNKNOWN THEN [r EXCEPT !.ftCalls = @ + 1, !.ft = t]
        ELSE IF r.ft # "" THEN [r EXCEPT !.ftCalls = @ + 1]
        ELSE [r EXCEPT !.ftCalls = @ + 1, !.queries = @ + 1, !.ft = unix_st_mode(e)]

\* DirEntry::file_type: the d_type when it is one of the DT_* constants,
\* Fs::symlink_metadata(&self.path()) otherwise; nothing is stored in self
unix_DirEntry_file_type(r) ==
    LET e == r.entry.val.e
        t == unix_d_type(e, dtype)
    IN  IF t # DT_UNKNOWN THEN [r EXCEPT !.ftCalls = @ + 1, !.ft = t]
        ELSE [r EXCEPT !.ftCalls = @ + 1, !.queries = @ + 1, !.ft = unix_st_mode(e)]

DirEntry_file_type ==
    /\ rd.entry.some
    /\ rd.ftCalls < MaxFileTypeCalls
    /\ rd' = IF backend = "unix" THEN unix_DirEntry_file_type(rd)
             ELSE [rd EXCEPT !.ftCalls = @ + 1,
                             !.ft = windows_DirEntry_file_type(rd.entry.val.e)]
    /\ UNCHANGED <<backend, openVars, treeVars, cp, perm, ln, lateVars>>

\* the ReadDir goes out of scope: Drop for Dir / Drop for FindNextFileHandle
ReadDir_drop ==
    /\ rd.state = "open"
    /\ rd' = [closedir(rd) EXCEPT !.state = "dropped"]
    /\ UNCHANGED <<backend, openVars, treeVars, cp, perm, ln, lateVars>>

(***************************************************************************)
(* Part IV.  copy                                                          *)
(*                                                                         *)
(* cp holds what `from` names (a regular file, a directory, a special file *)
(* or nothing) with its permissions, the destination with its permissions  *)
(* before and after, and the calls copy issued, in order.                  *)
(***************************************************************************)
SourceKinds == {"file", "dir", "special", "none"}
PermValues  == {"rw", "ro"}
DestStates  == {"absent", "data"}

NoCopy(from, fromPerm, to, toPerm) ==
    [status |-> "idle", err |-> "", calls |-> <<>>,
     from |-> from, fromPerm |-> fromPerm,
     to0 |-> to, toPerm0 |-> toPerm, to |-> to, toPerm |-> toPerm]

CopyStates ==
    {c \in {NoCopy(f, fp, t, tp) :
               f \in SourceKinds, fp \in PermValues, t \in DestStates, tp \in PermValues} :
        c.to0 = "absent" => c.toPerm0 = "rw"}

\* mutant: the permissions are applied before the content is copied
unix_copy_calls_perm_first ==
    <<"Path::is_file", "File::open", "File::create", "File::metadata",
      "set_permissions", "io::copy">>

\* the calls of the unix copy, in program order
unix_copy_calls ==
    <<"Path::is_file", "File::open", "File::create", "File::metadata", "io::copy",
      "set_permissions">>

\* the destination once File::create(to) has returned Ok
Created(c) == [c EXCEPT !.to = "empty",
                        !.toPerm = IF c.to0 = "absent" THEN "rw" ELSE c.toPerm0]

\* Fs::copy; fail is the call (1..6) that fails, 0 for none.  is_file() is
\* metadata(from), false when it fails.
unix_copy(c, fail) ==
    LET calls == SubSeq(unix_copy_calls, 1, IF fail = 0 THEN 6 ELSE fail)
        err   == [c EXCEPT !.status = "err", !.err = "EIO", !.calls = calls]
    IN  IF c.from # "file" \/ fail = 1
        THEN [c EXCEPT !.status = "err", !.err = "InvalidInput",
                       !.calls = SubSeq(unix_copy_calls, 1, 1)]
        ELSE CASE fail \in {2, 3} -> err
               [] fail = 4 -> [Created(err) EXCEPT !.to = "empty"]
               [] fail = 5 -> [Created(err) EXCEPT !.to = "partial"]
               [] fail = 6 -> [Created(err) EXCEPT !.to = "copied"]
               [] fail = 0 -> [Created(c) EXCEPT !.status = "ok", !.to = "copied",
                                                 !.toPerm = c.fromPerm, !.calls = calls]

\* CopyFileExW: fails on a directory and on a missing source before it
\* touches the destination; what it does with a special file is the
\* system's choice; it carries the source's attributes to the destination.
CopyFileExW(c, fail) ==
    LET called == [c EXCEPT !.calls = <<"CopyFileExW">>]
        copied == [called EXCEPT !.status = "ok", !.to = "copied", !.toPerm = c.fromPerm]
        failed(e) == [called EXCEPT !.status = "err", !.err = e]
    IN  CASE fail = 1 -> {failed("ERROR_IO_DEVICE"),
                          [failed("ERROR_IO_DEVICE") EXCEPT !.to = "absent"]}
          [] fail # 1 /\ c.from = "none" -> {failed("ERROR_FILE_NOT_FOUND")}
          [] fail # 1 /\ c.from = "dir" -> {failed("ERROR_ACCESS_DENIED")}
          [] fail # 1 /\ c.from = "special" -> {failed("ERROR_ACCESS_DENIED"), copied}
          [] fail # 1 /\ c.from = "file" -> {copied}

\* Fs::copy: cvt(CopyFileExW(..))?, nothing before it and nothing after it
windows_copy(c, fail) == CopyFileExW(c, fail)

Fs_copy ==
    /\ cp.status = "idle"
    /\ \E fail \in 0..6 :
          IF backend = "unix" THEN cp' = unix_copy(cp, fail)
          ELSE fail <= 1 /\ cp' \in windows_copy(cp, fail)
    /\ UNCHANGED <<backend, openVars, treeVars, rd, perm, ln, lateVars>>

(***************************************************************************)
(* Part V.  FilePermissions and FileType                                   *)
(*                                                                         *)
(* perm.bits is the mode (unix) or the attribute word (windows) of a       *)
(* FilePermissions value, as the set of its set bits; on windows the same  *)
(* word, with a reparse tag, is what FileType::new classifies.             *)
(***************************************************************************)
\* 0o222: the write bit of owner, group and others
WRITE_0o222 == {7, 4, 1}

FILE_ATTRIBUTE_READONLY == {0}

\* the bits a value is drawn from: rwx bits and setuid (unix); read-only,
\* hidden, directory, archive, reparse point (windows)
PermBits(b) == IF b = "unix" THEN {1, 2, 4, 6, 7, 8, 11} ELSE {0, 1, 4, 5, 10}

IO_REPARSE_TAG_OTHER == "IO_REPARSE_TAG_OTHER"
ReparseTags == {NoTag, IO_REPARSE_TAG_SYMLINK, IO_REPARSE_TAG_MOUNT_POINT,
                IO_REPARSE_TAG_OTHER}

NoPerm(bits) ==
    [bits |-> bits, before |-> bits, arg |-> None, ro |-> None, tag |-> NoTag, ft |-> None]

\* readonly(): self.mode & 0o222 == 0
unix_readonly(mode) == mode \cap WRITE_0o222 = {}

\* mutant: only the owner's write bit is cleared
unix_set_readonly_owner_only(mode, readonly) ==
    IF readonly THEN mode \ {7} ELSE mode \cup WRITE_0o222

\* set_readonly: self.mode &= !0o222, or self.mode |= 0o222
unix_set_readonly(mode, readonly) ==
    IF readonly THEN mode \cap BitNot(WRITE_0o222) ELSE mode \cup WRITE_0o222

\* readonly(): self.attrs & FILE_ATTRIBUTE_READONLY != 0
windows_readonly(attrs) == attrs \cap FILE_ATTRIBUTE_READONLY # {}

\* mutant: the attribute word is replaced, not updated
windows_set_readonly_replace(attrs, readonly) ==
    IF readonly THEN FILE_ATTRIBUTE_READONLY ELSE {}

\* set_readonly: self.attrs |= FILE_ATTRIBUTE_READONLY, or &= !FILE_ATTRIBUTE_READONLY
windows_set_readonly(attrs, readonly) ==
    IF readonly THEN attrs \cup FILE_ATTRIBUTE_READONLY
    ELSE attrs \cap BitNot(FILE_ATTRIBUTE_READONLY)

Permissions_set_readonly ==
    /\ \E b \in BOOLEAN :
          perm' = [perm EXCEPT
                     !.before = perm.bits,
                     !.bits = IF backend = "unix" THEN unix_set_readonly(perm.bits, b)
                              ELSE windows_set_readonly(perm.bits, b),
                     !.arg = Some(b),
                     !.ro = None,
                     !.ft = None]
    /\ UNCHANGED <<backend, openVars, treeVars, rd, cp, ln, lateVars>>

Permissions_readonly ==
    /\ perm' = [perm EXCEPT
                  !.ro = Some(IF backend = "unix" THEN unix_readonly(perm.bits)
                              ELSE windows_readonly(perm.bits))]
    /\ UNCHANGED <<backend, openVars, treeVars, rd, cp, ln, lateVars>>

\* FileAttr::file_type / DirEntry::file_type: FileType::new on the attribute
\* word and a reparse tag
FileType_classify ==
    /\ backend = "windows"
    /\ \E tag \in ReparseTags :
          perm' = [perm EXCEPT !.tag = tag, !.ft = Some(FileType_new(perm.bits, tag))]
    /\ UNCHANGED <<backend, openVars, treeVars, rd, cp, ln, lateVars>>

(***************************************************************************)
(* Part VI.  soft_link and read_link                                       *)
(*                                                                         *)
(* A path is the sequence of its character codes.  ln.links maps a link    *)
(* name to what the filesystem stores for it: the target bytes (unix), the *)
(* reparse data CreateSymbolicLinkW writes (windows); ln.args keeps the    *)
(* target soft_link was given.                                             *)
(***************************************************************************)
BACKSLASH == 92
QUESTION  == 63
COLON     == 58

\* "l", "m"
LinkNames == {<<108>>, <<109>>}

\* "l", "m", "..\a", "C:\a", "\\s\a"
TargetStrings ==
    LinkNames \cup {<<Dot, Dot, BACKSLASH, 97>>,
                    <<67, COLON, BACKSLASH, 97>>,
                    <<BACKSLASH, BACKSLASH, 115, BACKSLASH, 97>>}

\* Vec::with_capacity(256)
READLINK_CAPACITY == 256

NoLinks == [links |-> [l \in LinkNames |-> None],
            args  |-> [l \in LinkNames |-> None],
            last  |-> None]

StartsWith(p, prefix) ==
    Len(p) >= Len(prefix) /\ SubSeq(p, 1, Len(prefix)) = prefix

Drop(p, n) == SubSeq(p, n + 1, Len(p))

\* symlink(2) stores the target bytes as given
symlink(target) == target

\* CreateSymbolicLinkW: a drive-absolute target C:\.. is stored as \??\C:\..,
\* a UNC target \\server\.. as \??\UNC\server\.., both with Flags 0; any
\* other target is stored as given with SYMLINK_FLAG_RELATIVE
CreateSymbolicLinkW(target) ==
    IF Len(target) >= 3 /\ target[2] = COLON /\ target[3] = BACKSLASH
    THEN [ReparseTag |-> IO_REPARSE_TAG_SYMLINK, relative |-> FALSE,
          SubstituteName |-> <<BACKSLASH, QUESTION, QUESTION, BACKSLASH>> \o target]
    ELSE IF StartsWith(target, <<BACKSLASH, BACKSLASH>>)
    THEN [ReparseTag |-> IO_REPARSE_TAG_SYMLINK, relative |-> FALSE,
          SubstituteName |-> <<BACKSLASH, QUESTION, QUESTION, BACKSLASH, 85, 78, 67,
                               BACKSLASH>> \o Drop(target, 2)]
    ELSE [ReparseTag |-> IO_REPARSE_TAG_SYMLINK, relative |-> TRUE,
          SubstituteName |-> target]

\* readlink(2) into a buffer of cap bytes: the bytes written
readlink(stored, cap) ==
    SubSeq(stored, 1, IF Len(stored) < cap THEN Len(stored) ELSE cap)

\* buf.reserve(1) at len = capacity: the capacity doubles (at least len + 1)
Vec_reserve_1(cap) == IF 2 * cap > cap + 1 THEN 2 * cap ELSE cap + 1

\* the loop of Fs::read_link: the result is returned when the bytes read are
\* fewer than the capacity
\* mutant: whatever was read is returned
read_link_returns_at_once(buf_read, capacity) == TRUE

\* if buf_read != buf.capacity() { ... return Ok(..) }
read_link_returns(buf_read, capacity) == buf_read # capacity

RECURSIVE unix_read_link_loop(_, _)
unix_read_link_loop(stored, cap) ==
    LET buf == readlink(stored, cap)
    IN  IF read_link_returns(Len(buf), cap) THEN Ok(buf)
        ELSE unix_read_link_loop(stored, Vec_reserve_1(cap))

\* Fs::read_link
unix_read_link(links, l, fail) ==
    IF fail THEN Err("EIO")
    ELSE IF ~links[l].some THEN Err("ENOENT")
    ELSE unix_read_link_loop(links[l].val, READLINK_CAPACITY)

\* mutant: the substitute name is returned as stored
windows_readlink_raw(buf) ==
    IF buf.ReparseTag \notin {IO_REPARSE_TAG_SYMLINK, IO_REPARSE_TAG_MOUNT_POINT}
    THEN Err("Unsupported reparse point type")
    ELSE Ok(buf.SubstituteName)

\* File::readlink: the substitute name of a symlink or mount point, without
\* a leading \??\ when the link is not relative
windows_readlink(buf) ==
    IF buf.ReparseTag \notin {IO_REPARSE_TAG_SYMLINK, IO_REPARSE_TAG_MOUNT_POINT}
    THEN Err("Unsupported reparse point type")
    ELSE LET relative == buf.ReparseTag = IO_REPARSE_TAG_SYMLINK /\ buf.relative
             subst    == buf.SubstituteName
         IN  IF ~relative /\ StartsWith(subst, <<BACKSLASH, QUESTION, QUESTION, BACKSLASH>>)
             THEN Ok(Drop(subst, 4))
             ELSE Ok(subst)

\* Fs::read_link: File::open with access_mode(0) and
\* FILE_FLAG_OPEN_REPARSE_POINT | FILE_FLAG_BACKUP_SEMANTICS, then readlink;
\* fail is a failing CreateFileW or DeviceIoControl
windows_read_link(links, l, fail) ==
    LET o  == [windows_OpenOptions_new EXCEPT
                 !.access_mode = Some({}),
                 !.custom_flags = FILE_FLAG_OPEN_REPARSE_POINT
                                    \cup FILE_FLAG_BACKUP_SEMANTICS]
        am == windows_get_access_mode(o)
        cm == windows_get_creation_mode(o)
    IN  IF ~am.ok THEN am
        ELSE IF ~cm.ok THEN cm
        ELSE IF fail THEN Err("ERROR_ACCESS_DENIED")
        ELSE IF ~links[l].some THEN Err("ERROR_FILE_NOT_FOUND")
        ELSE windows_readlink(links[l].val)

\* "C:\a", "\??\a"
JunctionTargets ==
    {<<67, COLON, BACKSLASH, 97>>,
     <<BACKSLASH, QUESTION, QUESTION, BACKSLASH, 97>>}

\* the reparse data symlink_junction_inner writes: \??\ followed by the target
\* as given, under IO_REPARSE_TAG_MOUNT_POINT
MountPointData(target) ==
    [ReparseTag |-> IO_REPARSE_TAG_MOUNT_POINT, relative |-> FALSE,
     SubstituteName |-> <<BACKSLASH, QUESTION, QUESTION, BACKSLASH>> \o target]

\* a reparse point of another kind, made by another program
OtherReparseData ==
    [ReparseTag |-> IO_REPARSE_TAG_OTHER, relative |-> FALSE,
     SubstituteName |-> <<97>>]

\* symlink_junction(src, dst)
Fs_symlink_junction ==
    /\ backend = "windows"
    /\ \E target \in JunctionTargets, junction \in LinkNames :
          /\ ~ln.links[junction].some
          /\ ln' = [ln EXCEPT !.links[junction] = Some(MountPointData(target))]
    /\ UNCHANGED <<backend, openVars, treeVars, rd, cp, perm, lateVars>>

\* a path that holds a reparse point File::readlink does not decode
OtherReparsePoint ==
    /\ backend = "windows"
    /\ \E path \in LinkNames :
          /\ ~ln.links[path].some
          /\ ln' = [ln EXCEPT !.links[path] = Some(OtherReparseData)]
    /\ UNCHANGED <<backend, openVars, treeVars, rd, cp, perm, lateVars>>

\* Fs::soft_link(src, dst): symlink / symlink_inner(src, dst, false); it
\* fails when dst exists
Fs_soft_link ==
    /\ \E src \in TargetStrings, dst \in LinkNames :
          /\ ~ln.links[dst].some
          /\ ln' = [ln EXCEPT
                      !.links[dst] = Some(IF backend = "unix" THEN symlink(src)
                                          ELSE CreateSymbolicLinkW(src)),
                      !.args[dst] = Some(src)]
    /\ UNCHANGED <<backend, openVars, treeVars, rd, cp, perm, lateVars>>

Fs_read_link ==
    /\ \E path \in LinkNames, fail \in BOOLEAN :
          ln' = [ln EXCEPT
                   !.last = Some([path |-> path,
                                  data |-> ln.links[path],
                                  res |-> IF backend = "unix"
                                          THEN unix_read_link(ln.links, path, fail)
                                          ELSE windows_read_link(ln.links, path, fail)])]
    /\ UNCHANGED <<backend, openVars, treeVars, rd, cp, perm, lateVars>>

(***************************************************************************)
(* Part VII.  The native-call layer                                        *)
(*                                                                         *)
(* Every operation hands its native call to cvt or to cvt_r.  nc is one    *)
(* operation in progress: the call it issues, the calls issued so far with *)
(* what each returned, and what the caller receives.                       *)
(***************************************************************************)
EINTR  == 4
EACCES == 13
ERROR_ACCESS_DENIED == 5

\* the consecutive interrupted returns one operation meets
MaxInterrupts == 2

\* the operations of the unix backend that make one native call, with the
\* wrapper the call is handed to
UnixCalls ==
    { [op |-> "Fs::remove_file",        call |-> "unlink",      wrapper |-> "cvt"],
      [op |-> "Fs::metadata",           call |-> "stat64",      wrapper |-> "cvt"],
      [op |-> "Fs::symlink_metadata",   call |-> "lstat64",     wrapper |-> "cvt"],
      [op |-> "Fs::rename",             call |-> "rename",      wrapper |-> "cvt"],
      [op |-> "Fs::hard_link",          call |-> "link",        wrapper |-> "cvt"],
      [op |-> "Fs::soft_link",          call |-> "symlink",     wrapper |-> "cvt"],
      [op |-> "Fs::read_link",          call |-> "readlink",    wrapper |-> "cvt"],
      [op |-> "Fs::remove_dir",         call |-> "rmdir",       wrapper |-> "cvt"],
      [op |-> "Fs::set_permissions",    call |-> "chmod",       wrapper |-> "cvt_r"],
      [op |-> "File::seek",             call |-> "lseek64",     wrapper |-> "cvt"],
      [op |-> "File::sync_all",         call |-> "fsync",       wrapper |-> "cvt_r"],
      [op |-> "File::sync_data",        call |-> "fdatasync",   wrapper |-> "cvt_r"],
      [op |-> "File::set_len",          call |-> "ftruncate64", wrapper |-> "cvt_r"],
      [op |-> "File::metadata",         call |-> "fstat64",     wrapper |-> "cvt"],
      [op |-> "File::set_permissions",  call |-> "fchmod",      wrapper |-> "cvt_r"],
      [op |-> "File::open_c",           call |-> "open64",      wrapper |-> "cvt_r"],
      [op |-> "DirBuilder::mkdir",      call |-> "mkdir",       wrapper |-> "cvt"] }

WindowsCalls ==
    { [op |-> "Fs::remove_file",     call |-> "DeleteFileW",         wrapper |-> "cvt"],
      [op |-> "Fs::rename",          call |-> "MoveFileExW",         wrapper |-> "cvt"],
      [op |-> "Fs::copy",            call |-> "CopyFileExW",         wrapper |-> "cvt"],
      [op |-> "Fs::hard_link",       call |-> "CreateHardLinkW",     wrapper |-> "cvt"],
      [op |-> "Fs::remove_dir",      call |-> "RemoveDirectoryW",    wrapper |-> "cvt"],
      [op |-> "Fs::set_permissions", call |-> "SetFileAttributesW",  wrapper |-> "cvt"],
      [op |-> "File::sync_all",      call |-> "FlushFileBuffers",    wrapper |-> "cvt"],
      [op |-> "Fs::soft_link",       call |-> "CreateSymbolicLinkW", wrapper |-> "cvt"] }

NativeCalls(b) == IF b = "unix" THEN UnixCalls ELSE WindowsCalls

\* what a native call returns: 0 or an error code
NativeReturns(b) ==
    IF b = "unix" THEN {0, EINTR, EACCES}
    ELSE {0, ERROR_INVALID_PARAMETER, ERROR_ACCESS_DENIED}

NoCall == [status |-> "idle", op |-> "", call |-> "", wrapper |-> "", flags |-> "",
           calls |-> <<>>, res |-> None]

\* cvt: the return value as a Result, the call not repeated
cvt(ret) == IF ret = 0 THEN Ok(0) ELSE Err(ret)

\* cvt_r: the call is repeated while cvt of its return is Err of kind
\* Interrupted
cvt_r_repeats(ret) == ~cvt(ret).ok /\ cvt(ret).err = EINTR

\* mutant: symlink_inner returns the first error whatever it is
symlink_inner_no_retry(n, result) == FALSE

\* symlink_inner: the first CreateSymbolicLinkW is issued with
\* SYMBOLIC_LINK_FLAG_ALLOW_UNPRIVILEGED_CREATE; when it fails with
\* ERROR_INVALID_PARAMETER the call is issued again without that flag
symlink_inner_retries(n, result) ==
    n = 1 /\ ~result.ok /\ result.err = ERROR_INVALID_PARAMETER

\* an operation starts: its native call is about to be issued
Native_call ==
    /\ nc.status = "idle"
    /\ \E c \in NativeCalls(backend) :
          nc' = [NoCall EXCEPT
                   !.status = "running", !.op = c.op, !.call = c.call,
                   !.wrapper = c.wrapper,
                   !.flags = IF c.call = "CreateSymbolicLinkW"
                             THEN "SYMBOLIC_LINK_FLAG_ALLOW_UNPRIVILEGED_CREATE"
                             ELSE ""]
    /\ UNCHANGED <<backend, openVars, treeVars, rd, cp, perm, ln, md, pm, rl, al>>

Interrupts(calls) == Cardinality({i \in DOMAIN calls : calls[i].ret = EINTR})

\* the native call returns: the wrapper or the operation issues it again, or
\* the operation returns
Native_return ==
    /\ nc.status = "running"
    /\ \E ret \in NativeReturns(backend) :
          LET calls == Append(nc.calls, [call |-> nc.call, flags |-> nc.flags, ret |-> ret])
              n     == Len(calls)
          IN  /\ (ret = EINTR /\ nc.wrapper = "cvt_r") => Interrupts(nc.calls) < MaxInterrupts
              /\ IF nc.wrapper = "cvt_r" /\ cvt_r_repeats(ret)
                 THEN nc' = [nc EXCEPT !.calls = calls]
                 ELSE IF nc.call = "CreateSymbolicLinkW" /\ symlink_inner_retries(n, cvt(ret))
                 THEN nc' = [nc EXCEPT !.calls = calls, !.flags = ""]
                 ELSE nc' = [nc EXCEPT !.calls = calls, !.status = "done",
                                       !.res = Some(cvt(ret))]
    /\ UNCHANGED <<backend, openVars, treeVars, rd, cp, perm, ln, md, pm, rl, al>>

(***************************************************************************)
(* Part VIII.  The timestamps of a FileAttr                                *)
(***************************************************************************)
\* the largest timestamp of the model (seconds)
MaxTime == 2

Times == 0 .. MaxTime

\* target_os values: the ones the cfg attributes of FileAttr name, and two
\* they do not
TargetOS(b) ==
    IF b = "unix"
    THEN {"netbsd", "bitrig", "freebsd", "openbsd", "macos", "ios", "linux", "android"}
    ELSE {"windows"}

\* the platforms whose stat has st_birthtime
HasBirthtime(os) ==
    os \in {"netbsd", "bitrig", "freebsd", "openbsd", "macos", "ios", "windows"}

NoAttr(os, m, a, c) ==
    [target_os |-> os, st_mtime |-> m, st_atime |-> a, st_birthtime |-> c,
     asked |-> "", res |-> None]

IoError(kind, msg) == [kind |-> kind, msg |-> msg]

\* FileAttr::modified, on both backends
FileAttr_modified(attr) == Ok(attr.st_mtime)

\* FileAttr::accessed, on both backends
FileAttr_accessed(attr) == Ok(attr.st_atime)

\* FileAttr::created: the birth time where the platform's stat has one (and
\* creation_time on windows), an error elsewhere
FileAttr_created(attr) ==
    IF attr.target_os = "windows" THEN Ok(attr.st_birthtime)
    ELSE IF attr.target_os = "netbsd" THEN Ok(attr.st_birthtime)
    ELSE IF attr.target_os \in {"bitrig", "freebsd", "openbsd", "macos", "ios"}
    THEN Ok(attr.st_birthtime)
    ELSE Err(IoError("Other",
                     "creation time is not available on this platform currently"))

Metadata_modified ==
    /\ md' = [md EXCEPT !.asked = "modified", !.res = Some(FileAttr_modified(md))]
    /\ UNCHANGED <<backend, openVars, treeVars, rd, cp, perm, ln, nc, pm, rl, al>>

Metadata_accessed ==
    /\ md' = [md EXCEPT !.asked = "accessed", !.res = Some(FileAttr_accessed(md))]
    /\ UNCHANGED <<backend, openVars, treeVars, rd, cp, perm, ln, nc, pm, rl, al>>

Metadata_created ==
    /\ md' = [md EXCEPT !.asked = "created", !.res = Some(FileAttr_created(md))]
    /\ UNCHANGED <<backend, openVars, treeVars, rd, cp, perm, ln, nc, pm, rl, al>>

(***************************************************************************)
(* Part IX.  PermissionsExt on the unix backend                            *)
(*                                                                         *)
(* A mode is the set of its bits.  FilePermissions holds a mode_t, whose   *)
(* width is the platform's: 32 bits on linux, 16 on macos, ios and others. *)
(***************************************************************************)
ModeWidths == {16, 32}

\* the bits the u32 arguments of the model are made of
ModeArgBits == {7, 8, 15, 16, 31}

ModeArgs == SUBSET ModeArgBits

NoMode(w) == [width |-> w, mode |-> {}, before |-> {}, op |-> "", arg |-> {}, got |-> None]

\* mode as mode_t
as_mode_t(mode, w) == {b \in mode : b < w}

\* FromInner<u32> for FilePermissions: FilePermissions { mode: mode as mode_t }
FilePermissions_from_inner(mode, w) == as_mode_t(mode, w)

\* FilePermissions::mode: self.mode as u32
FilePermissions_mode(mode) == mode

\* mutant: the new bits are merged with the old ones
PermissionsExt_set_mode_merge(old, mode, w) ==
    old \cup FilePermissions_from_inner(mode, w)

\* PermissionsExt::set_mode: *self = Permissions::from_inner(from_inner(mode))
PermissionsExt_set_mode(old, mode, w) == FilePermissions_from_inner(mode, w)

\* PermissionsExt::from_mode
Permissions_from_mode ==
    /\ backend = "unix"
    /\ \E m \in ModeArgs :
          pm' = [pm EXCEPT !.op = "from_mode", !.arg = m, !.before = {},
                           !.mode = FilePermissions_from_inner(m, pm.width),
                           !.got = None]
    /\ UNCHANGED <<backend, openVars, treeVars, rd, cp, perm, ln, nc, md, rl, al>>

Permissions_set_mode ==
    /\ backend = "unix"
    /\ pm.op # ""
    /\ \E m \in ModeArgs :
          pm' = [pm EXCEPT !.op = "set_mode", !.arg = m, !.before = pm.mode,
                           !.mode = PermissionsExt_set_mode(pm.mode, m, pm.width),
                           !.got = None]
    /\ UNCHANGED <<backend, openVars, treeVars, rd, cp, perm, ln, nc, md, rl, al>>

\* PermissionsExt::mode
Permissions_mode ==
    /\ backend = "unix"
    /\ pm.op # ""
    /\ pm' = [pm EXCEPT !.got = Some(FilePermissions_mode(pm.mode))]
    /\ UNCHANGED <<backend, openVars, treeVars, rd, cp, perm, ln, nc, md, rl, al>>

(***************************************************************************)
(* Part X.  The buffer of the unix read_link                               *)
(*                                                                         *)
(* One read_link on a link whose stored target has a length around a       *)
(* multiple of the first capacity; rl.caps are the capacities the native   *)
(* readlink was called with.                                               *)
(***************************************************************************)
\* the stored targets reach 2^MaxDoublings times the first capacity, and one more
MaxDoublings == 2

TargetLengths ==
    {1} \cup {k * READLINK_CAPACITY + d :
                 k \in {2^j : j \in 0..MaxDoublings}, d \in {-1, 0, 1}}

\* a target of n bytes, no two neighbours equal
LongTarget(n, first) == [i \in 1..n |-> first + (i % 3)]

LongTargets == {LongTarget(n, first) : n \in TargetLengths, first \in {65, 97}}

NoReadLink(t) ==
    [status |-> "idle", target |-> t, capacity |-> 0, caps |-> <<>>, res |-> None]

\* let mut buf = Vec::with_capacity(256)
ReadLink_begin ==
    /\ backend = "unix"
    /\ rl.status = "idle"
    /\ rl' = [rl EXCEPT !.status = "loop", !.capacity = READLINK_CAPACITY]
    /\ UNCHANGED <<backend, openVars, treeVars, rd, cp, perm, ln, nc, md, pm, al>>

\* one turn of the loop: readlink into the buffer, then return or reserve(1)
ReadLink_readlink ==
    /\ rl.status = "loop"
    /\ \E fail \in BOOLEAN :
          LET buf  == readlink(rl.target, rl.capacity)
              caps == Append(rl.caps, rl.capacity)
          IN  rl' = IF fail
                    THEN [rl EXCEPT !.status = "done", !.caps = caps,
                                    !.res = Some(Err("EIO"))]
                    ELSE IF read_link_returns(Len(buf), rl.capacity)
                    THEN [rl EXCEPT !.status = "done", !.caps = caps,
                                    !.res = Some(Ok(buf))]
                    ELSE [rl EXCEPT !.caps = caps,
                                    !.capacity = Vec_reserve_1(rl.capacity)]
    /\ UNCHANGED <<backend, openVars, treeVars, rd, cp, perm, ln, nc, md, pm, al>>

(***************************************************************************)
(* Part XI.  The unix copy when the two paths may name one file            *)
(*                                                                         *)
(* al.inodes maps an inode to the bytes of its file; `from` names inode 1, *)
(* `to` names al.to: inode 1 again (the same path, a hard link to it, a    *)
(* symbolic link to it), inode 2 (another file), or 0 (no file yet).       *)
(***************************************************************************)
Contents == {<<>>, <<1>>, <<2>>, <<1, 2>>}

ToKinds == {"absent", "other file", "same path", "hard link", "symbolic link"}

\* the inode `to` resolves to; open follows a symbolic link
ToInode(kind) ==
    CASE kind = "absent" -> 0
      [] kind = "other file" -> 2
      [] kind \in {"same path", "hard link", "symbolic link"} -> 1

NoAlias(src, other, kind) ==
    [status |-> "idle", err |-> "", ret |-> 0,
     inodes |-> <<src, other>>, src0 |-> src, kind |-> kind, to |-> ToInode(kind)]

\* File::create(to): open with write, create, truncate; the file `to` names
\* is emptied, a new one is made when there is none
File_create_truncate(a) ==
    IF a.to = 0 THEN [a EXCEPT !.to = 2, !.inodes[2] = <<>>]
    ELSE [a EXCEPT !.inodes[a.to] = <<>>]

\* io::copy(&mut reader, &mut writer): the bytes read from the reader's file,
\* as it is now, are written to the writer's from offset 0
io_copy(a) == [a EXCEPT !.inodes[a.to] = a.inodes[1], !.ret = Len(a.inodes[1])]

\* Fs::copy on a regular file `from`; fail is the call (1..6) that fails, 0
\* for none
unix_copy_inodes(a, fail) ==
    LET err(x, e) == [x EXCEPT !.status = "err", !.err = e]
        created   == File_create_truncate(a)
        copied    == io_copy(created)
    IN  CASE fail = 1 -> err(a, "InvalidInput")
          [] fail \in {2, 3} -> err(a, "EIO")
          [] fail \in {4, 5} -> err(created, "EIO")
          [] fail = 6 -> err(copied, "EIO")
          [] fail = 0 -> [copied EXCEPT !.status = "ok"]

Fs_copy_inodes ==
    /\ backend = "unix"
    /\ al.status = "idle"
    /\ \E fail \in 0..6 : al' = unix_copy_inodes(al, fail)
    /\ UNCHANGED <<backend, openVars, treeVars, rd, cp, perm, ln, nc, md, pm, rl>>

PalInit ==
    /\ rd = NoReadDir
    /\ cp = NoCopy("none", "rw", "absent", "rw")
    /\ perm = NoPerm({})
    /\ ln = NoLinks
    /\ nc = NoCall
    /\ md = NoAttr("linux", 0, 0, 0)
    /\ pm = NoMode(32)
    /\ rl = NoReadLink(<<97>>)
    /\ al = NoAlias(<<>>, <<>>, "absent")

(***************************************************************************)
(* Specifications.                                                         *)
(***************************************************************************)
TreeInit ==
    /\ fs = [p \in Paths |-> NoEntry]
    /\ fs0 = [p \in Paths |-> NoEntry]
    /\ rm = RmIdle
    /\ trace = <<>>
    /\ enumerated = {}
    /\ ext = 0
    /\ PalInit

\* Part II: build a tree, then remove_dir_all on it
Init ==
    /\ backend \in Backends
    /\ dtype \in BOOLEAN
    /\ backend = "windows" => dtype
    /\ opts = OpenOptions_new(backend)
    /\ files = "absent"
    /\ openRes = NoOpen
    /\ TreeInit

Next ==
    \/ DirBuilder_create
    \/ File_create
    \/ unix_soft_link
    \/ symlink_inner
    \/ symlink_junction_inner
    \/ remove_dir_all
    \/ remove_link
    \/ read_dir
    \/ next_None
    \/ next_Err
    \/ next_Some
    \/ file_type
    \/ remove_file
    \/ remove_dir_child
    \/ remove_dir

Spec == Init /\ [][Next]_vars

\* one step of remove_dir_all: the call runs on, it does not wait
RmStep ==
    \/ remove_link
    \/ read_dir
    \/ next_None
    \/ next_Err
    \/ next_Some
    \/ file_type
    \/ remove_file
    \/ remove_dir_child
    \/ remove_dir

\* Spec with the call to remove_dir_all running to its return
FairSpec == Spec /\ WF_vars(RmStep)

(***************************************************************************)
(* Another process working on the same tree between two native calls of    *)
(* remove_dir_all: inside the tree being removed it removes an empty        *)
(* directory, or makes a symbolic link, through the same native calls.     *)
(***************************************************************************)
MaxExt == 2

ext_remove_dir ==
    /\ Running
    /\ ext < MaxExt
    /\ \E p \in Paths :
          LET n == IF backend = "unix" THEN rmdir(fs, p, NoFail)
                   ELSE RemoveDirectoryW(fs, p, NoFail)
          IN  /\ IsPrefix(rm.path, p)
              /\ n.res.ok
              /\ fs' = n.fs
    /\ ext' = ext + 1
    /\ UNCHANGED <<backend, palVars, openVars, fs0, dtype, rm, trace, enumerated>>

ext_soft_link ==
    /\ Running
    /\ ext < MaxExt
    /\ \E src \in LinkTargets, dst \in Paths :
          LET place == NewPlace(fs, dst)
          IN  /\ IsPrefix(rm.path, dst)
              /\ place # <<>>
              /\ fs' = [fs EXCEPT ![place] =
                          LinkEntry(src, IF backend = "unix" THEN "Symlink"
                                         ELSE "SymlinkDir")]
    /\ ext' = ext + 1
    /\ UNCHANGED <<backend, palVars, openVars, fs0, dtype, rm, trace, enumerated>>

\* the trees remove_dir_all("/a") races on: directories, files, links to /b
RaceTree(b, dirs, regs, links) ==
    [p \in Paths |->
        IF p \in dirs THEN DirEntry_
        ELSE IF p \in regs THEN RegEntry
        ELSE IF p \in links
        THEN LinkEntry(<<"b">>, IF b = "unix" THEN "Symlink" ELSE "SymlinkDir")
        ELSE NoEntry]

RaceTrees(b) ==
    { RaceTree(b, {<<"a">>, <<"a", "a">>, <<"b">>}, {<<"b", "a">>}, {}),
      RaceTree(b, {<<"a">>, <<"a", "a">>, <<"b">>}, {<<"a", "b">>}, {}),
      RaceTree(b, {<<"a">>, <<"a", "a">>, <<"a", "a", "a">>, <<"b">>}, {}, {}),
      RaceTree(b, {<<"b">>}, {<<"b", "a">>}, {<<"a">>}) }

RaceInit ==
    /\ backend \in Backends
    /\ dtype \in BOOLEAN
    /\ backend = "windows" => dtype
    /\ opts = OpenOptions_new(backend)
    /\ files = "absent"
    /\ openRes = NoOpen
    /\ fs \in RaceTrees(backend)
    /\ fs0 = fs
    /\ rm = RmIdle
    /\ trace = <<>>
    /\ enumerated = {}
    /\ ext = 0
    /\ PalInit

RaceNext ==
    \/ remove_dir_all
    \/ remove_link
    \/ read_dir
    \/ next_None
    \/ next_Err
    \/ next_Some
    \/ file_type
    \/ remove_file
    \/ remove_dir_child
    \/ remove_dir
    \/ ext_remove_dir
    \/ ext_soft_link

\* remove_dir_all on a built tree, with the other process
SpecRace == RaceInit /\ [][RaceNext]_vars

\* Part I: configure an OpenOptions, File::open with it
OpenInit ==
    /\ backend \in Backends
    /\ dtype = TRUE
    /\ opts = OpenOptions_new(backend)
    /\ files \in FileStates
    /\ openRes = NoOpen
    /\ TreeInit

OpenNext ==
    \/ SetRead
    \/ SetWrite
    \/ SetAppend
    \/ SetTruncate
    \/ SetCreate
    \/ SetCreateNew
    \/ SetCustomFlags
    \/ SetMode
    \/ SetAccessMode
    \/ SetShareMode
    \/ SetAttributes
    \/ FileOpen

SpecOpen == OpenInit /\ [][OpenNext]_vars

\* Part III: read a directory stream, ask the entries for their type
DirInit ==
    /\ backend \in Backends
    /\ dtype \in BOOLEAN
    /\ backend = "windows" => dtype
    /\ opts = OpenOptions_new(backend)
    /\ files = "absent"
    /\ openRes = NoOpen
    /\ fs = [p \in Paths |-> NoEntry]
    /\ fs0 = fs
    /\ rm = RmIdle
    /\ trace = <<>>
    /\ enumerated = {}
    /\ ext = 0
    /\ \E s \in NativeStreams : rd = [NoReadDir EXCEPT !.stream = s]
    /\ cp = NoCopy("none", "rw", "absent", "rw")
    /\ perm = NoPerm({})
    /\ ln = NoLinks
    /\ nc = NoCall
    /\ md = NoAttr("linux", 0, 0, 0)
    /\ pm = NoMode(32)
    /\ rl = NoReadLink(<<97>>)
    /\ al = NoAlias(<<>>, <<>>, "absent")

DirNext ==
    \/ Fs_read_dir
    \/ ReadDir_next
    \/ DirEntry_file_type
    \/ ReadDir_drop

SpecDir == DirInit /\ [][DirNext]_vars

\* Part IV: one copy(from, to)
CopyInit ==
    /\ backend \in Backends
    /\ dtype = TRUE
    /\ opts = OpenOptions_new(backend)
    /\ files = "absent"
    /\ openRes = NoOpen
    /\ fs = [p \in Paths |-> NoEntry]
    /\ fs0 = fs
    /\ rm = RmIdle
    /\ trace = <<>>
    /\ enumerated = {}
    /\ ext = 0
    /\ rd = NoReadDir
    /\ cp \in CopyStates
    /\ perm = NoPerm({})
    /\ ln = NoLinks
    /\ nc = NoCall
    /\ md = NoAttr("linux", 0, 0, 0)
    /\ pm = NoMode(32)
    /\ rl = NoReadLink(<<97>>)
    /\ al = NoAlias(<<>>, <<>>, "absent")

CopyNext ==
    \/ Fs_copy

SpecCopy == CopyInit /\ [][CopyNext]_vars

\* Part V: a FilePermissions value, set_readonly and readonly on it, and the
\* FileType of its attribute word
AttrInit ==
    /\ backend \in Backends
    /\ dtype = TRUE
    /\ opts = OpenOptions_new(backend)
    /\ files = "absent"
    /\ openRes = NoOpen
    /\ fs = [p \in Paths |-> NoEntry]
    /\ fs0 = fs
    /\ rm = RmIdle
    /\ trace = <<>>
    /\ enumerated = {}
    /\ ext = 0
    /\ rd = NoReadDir
    /\ cp = NoCopy("none", "rw", "absent", "rw")
    /\ \E bits \in SUBSET PermBits(backend) : perm = NoPerm(bits)
    /\ ln = NoLinks
    /\ nc = NoCall
    /\ md = NoAttr("linux", 0, 0, 0)
    /\ pm = NoMode(32)
    /\ rl = NoReadLink(<<97>>)
    /\ al = NoAlias(<<>>, <<>>, "absent")

AttrNext ==
    \/ Permissions_set_readonly
    \/ Permissions_readonly
    \/ FileType_classify

SpecAttr == AttrInit /\ [][AttrNext]_vars

\* Part VI: soft_link and read_link on two link names
LinkInit ==
    /\ backend \in Backends
    /\ dtype = TRUE
    /\ opts = OpenOptions_new(backend)
    /\ files = "absent"
    /\ openRes = NoOpen
    /\ fs = [p \in Paths |-> NoEntry]
    /\ fs0 = fs
    /\ rm = RmIdle
    /\ trace = <<>>
    /\ enumerated = {}
    /\ ext = 0
    /\ PalInit

\* Part VII: one operation and its native calls
NativeInit ==
    /\ backend \in Backends
    /\ dtype = TRUE
    /\ opts = OpenOptions_new(backend)
    /\ files = "absent"
    /\ openRes = NoOpen
    /\ fs = [p \in Paths |-> NoEntry]
    /\ fs0 = fs
    /\ rm = RmIdle
    /\ trace = <<>>
    /\ enumerated = {}
    /\ ext = 0
    /\ PalInit

NativeNext ==
    \/ Native_call
    \/ Native_return

SpecNative == NativeInit /\ [][NativeNext]_vars

\* Part VIII: a FileAttr and the three timestamps asked of it
TimeInit ==
    /\ backend \in Backends
    /\ dtype = TRUE
    /\ opts = OpenOptions_new(backend)
    /\ files = "absent"
    /\ openRes = NoOpen
    /\ fs = [p \in Paths |-> NoEntry]
    /\ fs0 = fs
    /\ rm = RmIdle
    /\ trace = <<>>
    /\ enumerated = {}
    /\ ext = 0
    /\ rd = NoReadDir
    /\ cp = NoCopy("none", "rw", "absent", "rw")
    /\ perm = NoPerm({})
    /\ ln = NoLinks
    /\ nc = NoCall
    /\ \E os \in TargetOS(backend), m \in Times, a \in Times, c \in Times :
          md = NoAttr(os, m, a, c)
    /\ pm = NoMode(32)
    /\ rl = NoReadLink(<<97>>)
    /\ al = NoAlias(<<>>, <<>>, "absent")

TimeNext ==
    \/ Metadata_modified
    \/ Metadata_accessed
    \/ Metadata_created

SpecTime == TimeInit /\ [][TimeNext]_vars

\* Part IX: a Permissions value made by from_mode, changed by set_mode
ModeInit ==
    /\ backend = "unix"
    /\ dtype = TRUE
    /\ opts = OpenOptions_new(backend)
    /\ files = "absent"
    /\ openRes = NoOpen
    /\ fs = [p \in Paths |-> NoEntry]
    /\ fs0 = fs
    /\ rm = RmIdle
    /\ trace = <<>>
    /\ enumerated = {}
    /\ ext = 0
    /\ rd = NoReadDir
    /\ cp = NoCopy("none", "rw", "absent", "rw")
    /\ perm = NoPerm({})
    /\ ln = NoLinks
    /\ nc = NoCall
    /\ md = NoAttr("linux", 0, 0, 0)
    /\ \E w \in ModeWidths : pm = NoMode(w)
    /\ rl = NoReadLink(<<97>>)
    /\ al = NoAlias(<<>>, <<>>, "absent")

ModeNext ==
    \/ Permissions_from_mode
    \/ Permissions_set_mode
    \/ Permissions_mode

SpecMode == ModeInit /\ [][ModeNext]_vars

\* Part X: one unix read_link on a long target
BufferInit ==
    /\ backend = "unix"
    /\ dtype = TRUE
    /\ opts = OpenOptions_new(backend)
    /\ files = "absent"
    /\ openRes = NoOpen
    /\ fs = [p \in Paths |-> NoEntry]
    /\ fs0 = fs
    /\ rm = RmIdle
    /\ trace = <<>>
    /\ enumerated = {}
    /\ ext = 0
    /\ rd = NoReadDir
    /\ cp = NoCopy("none", "rw", "absent", "rw")
    /\ perm = NoPerm({})
    /\ ln = NoLinks
    /\ nc = NoCall
    /\ md = NoAttr("linux", 0, 0, 0)
    /\ pm = NoMode(32)
    /\ \E t \in LongTargets : rl = NoReadLink(t)
    /\ al = NoAlias(<<>>, <<>>, "absent")

BufferNext ==
    \/ ReadLink_begin
    \/ ReadLink_readlink

SpecBuffer == BufferInit /\ [][BufferNext]_vars

\* Part XI: one unix copy, the two paths naming one file or two
AliasInit ==
    /\ backend = "unix"
    /\ dtype = TRUE
    /\ opts = OpenOptions_new(backend)
    /\ files = "absent"
    /\ openRes = NoOpen
    /\ fs = [p \in Paths |-> NoEntry]
    /\ fs0 = fs
    /\ rm = RmIdle
    /\ trace = <<>>
    /\ enumerated = {}
    /\ ext = 0
    /\ rd = NoReadDir
    /\ cp = NoCopy("none", "rw", "absent", "rw")
    /\ perm = NoPerm({})
    /\ ln = NoLinks
    /\ nc = NoCall
    /\ md = NoAttr("linux", 0, 0, 0)
    /\ pm = NoMode(32)
    /\ rl = NoReadLink(<<97>>)
    /\ \E src \in Contents, other \in Contents, kind \in ToKinds :
          /\ kind # "other file" => other = <<>>
          /\ al = NoAlias(src, other, kind)

AliasNext ==
    \/ Fs_copy_inodes

SpecAlias == AliasInit /\ [][AliasNext]_vars

LinkNext ==
    \/ Fs_soft_link
    \/ Fs_symlink_junction
    \/ OtherReparsePoint
    \/ Fs_read_link

SpecLink == LinkInit /\ [][LinkNext]_vars

(***************************************************************************)
(* Claims about Part I, checked under SpecOpen.                            *)
(***************************************************************************)
Opened   == openRes.status = "done"
Accepted == Opened /\ openRes.access.ok /\ openRes.creation.ok
Refused  == Opened /\ ~(openRes.access.ok /\ openRes.creation.ok)

InvalidArgument(b) == IF b = "unix" THEN EINVAL ELSE ERROR_INVALID_PARAMETER

NoOverride == backend = "unix" \/ ~opts.access_mode.some

\* what a native access word grants
AccessKind(b, m) ==
    IF b = "unix"
    THEN CASE m = O_RDONLY -> "read-only"
           [] m = O_WRONLY -> "write-only"
           [] m = O_RDWR   -> "read-write"
           [] m = O_WRONLY \cup O_APPEND -> "write-only + append"
           [] m = O_RDWR \cup O_APPEND   -> "read-write + append"
           [] OTHER -> "other"
    ELSE CASE m = GENERIC_READ  -> "read-only"
           [] m = GENERIC_WRITE -> "write-only"
           [] m = GENERIC_READ \cup GENERIC_WRITE -> "read-write"
           [] m = FILE_GENERIC_WRITE \ FILE_WRITE_DATA -> "write-only + append"
           [] m = GENERIC_READ \cup (FILE_GENERIC_WRITE \ FILE_WRITE_DATA) ->
                  "read-write + append"
           [] OTHER -> "other"

\* the access-mode table of the specification
AccessTable(r, w, a) ==
    CASE  r /\ ~w /\ ~a -> "read-only"
      [] ~r /\  w /\ ~a -> "write-only"
      []  r /\  w /\ ~a -> "read-write"
      [] ~r /\ a        -> "write-only + append"
      []  r /\ a        -> "read-write + append"
      [] ~r /\ ~w /\ ~a -> "fails"

\* C1: with no access-mode override, File::open resolves the access mode
\* from (read, write, append) as the table says, for all 8 combinations;
\* (F,F,F) fails with the invalid-argument error, and append without write
\* is accepted as write-only + append.  The native call is given the
\* resolved access mode.
C1_AccessModeTable ==
    (Opened /\ NoOverride) =>
        LET t == AccessTable(opts.read, opts.write, opts.append)
        IN  IF t = "fails"
            THEN /\ ~openRes.access.ok
                 /\ openRes.res = Err(InvalidArgument(backend))
                 /\ ~openRes.native.some
            ELSE /\ openRes.access.ok
                 /\ AccessKind(backend, openRes.access.val) = t
                 /\ openRes.native.some =>
                      IF backend = "unix"
                      THEN openRes.native.val.flags \cap O_ACCMODE
                             = openRes.access.val \cap O_ACCMODE
                      ELSE openRes.native.val.access = openRes.access.val

C1_Witness ==
    /\ Accepted /\ NoOverride /\ backend = "windows"
    /\ ~opts.read /\ ~opts.write /\ opts.append
    /\ AccessKind(backend, openRes.native.val.access) = "write-only + append"

\* what a resolved creation disposition asks for
Disposition(b, c) ==
    IF b = "unix"
    THEN CASE c = {}      -> "open-existing"
           [] c = O_CREAT -> "open-or-create"
           [] c = O_TRUNC -> "truncate-existing"
           [] c = O_CREAT \cup O_TRUNC -> "create-or-truncate"
           [] c = O_CREAT \cup O_EXCL  -> "create-exclusive"
           [] OTHER -> "other"
    ELSE CASE c = OPEN_EXISTING     -> "open-existing"
           [] c = OPEN_ALWAYS       -> "open-or-create"
           [] c = TRUNCATE_EXISTING -> "truncate-existing"
           [] c = CREATE_ALWAYS     -> "create-or-truncate"
           [] c = CREATE_NEW        -> "create-exclusive"
           [] OTHER -> "other"

\* the creation-disposition table of the specification
DispositionTable(c, t, n) ==
    CASE n              -> "create-exclusive"
      [] ~c /\ ~t /\ ~n -> "open-existing"
      []  c /\ ~t /\ ~n -> "open-or-create"
      [] ~c /\  t /\ ~n -> "truncate-existing"
      []  c /\  t /\ ~n -> "create-or-truncate"

\* C2: for every OpenOptions that passes validation the creation disposition
\* is the table's entry for (create, truncate, create_new); create_new
\* overrides create and truncate.  The native call is given that disposition.
C2_CreationDispositionTable ==
    Accepted =>
        /\ Disposition(backend, openRes.creation.val)
             = DispositionTable(opts.create, opts.truncate, opts.create_new)
        /\ IF backend = "unix"
           THEN openRes.creation.val \subseteq openRes.native.val.flags
           ELSE openRes.native.val.disposition = openRes.creation.val

C2_Witness ==
    /\ Accepted /\ backend = "unix"
    /\ opts.create /\ opts.truncate /\ opts.create_new
    /\ Disposition(backend, openRes.creation.val) = "create-exclusive"

DefaultExtension == opts = [OpenOptions_new(backend) EXCEPT
                              !.read = opts.read, !.write = opts.write,
                              !.append = opts.append, !.truncate = opts.truncate,
                              !.create = opts.create, !.create_new = opts.create_new]

\* the combinations the specification says are accepted
ValidCombination(o) ==
    \/ o.write /\ ~o.append
    \/ o.append /\ (~o.truncate \/ o.create_new)
    \/ o.read /\ ~o.write /\ ~o.append /\ ~o.truncate /\ ~o.create /\ ~o.create_new

\* C3: with default extension fields, flag resolution in File::open succeeds
\* exactly for the valid combinations of the six booleans, and every other
\* combination fails with the invalid-argument error.
C3_ValidCombinations ==
    (Opened /\ DefaultExtension) =>
        /\ Accepted <=> ValidCombination(opts)
        /\ Refused => openRes.res = Err(InvalidArgument(backend))

C3_Witness ==
    /\ Refused /\ DefaultExtension /\ backend = "windows"
    /\ opts.append /\ opts.truncate /\ ~opts.create_new
    /\ openRes.res = Err(ERROR_INVALID_PARAMETER)

\* C4: when flag resolution rejects the OpenOptions, File::open issues no
\* native open call and the file is as it was: not created, not truncated.
C4_RejectedBeforeNativeCall ==
    Refused =>
        /\ ~openRes.native.some
        /\ files = openRes.before
        /\ ~openRes.res.ok

C4_Witness ==
    /\ Refused /\ backend = "unix"
    /\ opts.read /\ opts.truncate /\ opts.create
    /\ files = "data"

\* the extension fields reset, all of them or all but the access-mode override
Booleans(b, o) ==
    [OpenOptions_new(b) EXCEPT
        !.read = o.read, !.write = o.write, !.append = o.append,
        !.truncate = o.truncate, !.create = o.create, !.create_new = o.create_new]

KeepOverride(b, o) ==
    IF b = "unix" THEN Booleans(b, o)
    ELSE [Booleans(b, o) EXCEPT !.access_mode = o.access_mode]

Resolution(b, o) ==
    IF b = "unix"
    THEN [access |-> unix_get_access_mode(o), creation |-> unix_get_creation_mode(o)]
    ELSE [access |-> windows_get_access_mode(o),
          creation |-> windows_get_creation_mode(o)]

Started   == rm.status # "idle"
Returned  == rm.status \in {"ok", "err"}
RootIsDir == Started /\ Lookup(fs0, rm.path).kind = "dir"

InTree(p) == IsPrefix(rm.path, p)

Calls(names) == {i \in 1..Len(trace) : trace[i].call \in names}
Removals     == Calls({"remove_file", "remove_dir"})

\* a symbolic link to a directory (or a junction) stored at p
DirLink(f, p) ==
    /\ Lookup(f, p).kind = "link"
    /\ Traversable(Lookup(f, p))
    /\ Resolve(f, p, TRUE).ok
    /\ Lookup(f, Resolve(f, p, TRUE).val).kind = "dir"

\* the directory a link at p stands for
TargetOf(f, p) == Resolve(f, p, TRUE).val

\* the entries of the tree rooted at a real directory that are links to directories
ChildDirLinks == {p \in Entries(fs0) : InTree(p) /\ p # rm.path /\ DirLink(fs0, p)}

\* C6 as stated: after remove_dir_all has returned Ok on a tree with a child
\* that is a link to a directory, the link's target and every entry under
\* the target still exist.
C6_Original ==
    (RootIsDir /\ rm.status = "ok") =>
        \A l \in ChildDirLinks :
            \A p \in Entries(fs0) : IsPrefix(TargetOf(fs0, l), p) => fs[p] = fs0[p]

\* C6 as amended: remove_dir_all on a real directory never enumerates through
\* a link: every directory it reads is a real directory of the tree, read
\* under its own path; every removal acts on the entry the path names; and
\* every entry outside the tree, a link's target and the entries under it
\* among them, stays as it was.  A child link is removed by a call on the
\* link itself.
C6_RemovesOnlyTheLink ==
    RootIsDir =>
        /\ \A d \in enumerated : InTree(d) /\ Lookup(fs0, d).kind = "dir"
        /\ \A i \in Calls({"read_dir"}) : trace[i].ok => trace[i].phys = trace[i].path
        /\ \A i \in Removals : trace[i].ok => trace[i].phys = trace[i].path
        /\ \A p \in Paths : ~InTree(p) => fs[p] = fs0[p]
        /\ rm.status = "ok" => \A l \in ChildDirLinks : Lookup(fs, l).kind = "none"

C6_Witness ==
    /\ RootIsDir /\ rm.status = "ok"
    /\ \E l \in ChildDirLinks :
          /\ ~InTree(TargetOf(fs0, l))
          /\ \E p \in Entries(fs) : p # TargetOf(fs0, l) /\ IsPrefix(TargetOf(fs0, l), p)
          /\ \E i \in Removals : trace[i].ok /\ trace[i].phys = l

\* C7: when the path given to remove_dir_all names a symbolic link to a
\* directory and symlink_metadata succeeds, no read_dir is issued, the only
\* removal call is the one on the link itself (remove_file on unix,
\* remove_dir on windows), exactly one once the call has returned, and every
\* other entry stays as it was.
C7_RootLinkRemovedAlone ==
    (Started /\ DirLink(fs0, rm.path) /\ trace[1].ok) =>
        /\ Calls({"read_dir", "next", "file_type"}) = {}
        /\ \A i \in Removals :
              /\ trace[i].path = rm.path
              /\ trace[i].call = IF backend = "unix" THEN "remove_file" ELSE "remove_dir"
        /\ Cardinality(Removals) <= 1
        /\ Returned => Cardinality(Removals) = 1
        /\ \A p \in Paths : p # rm.path => fs[p] = fs0[p]

\* C8: on a real directory, a remove_dir is issued on a directory only after
\* every child the directory had has been removed by an earlier call; when
\* remove_dir_all returns Ok no entry of the tree remains and the path no
\* longer resolves (NotFound); with no failed call it does not return Err.
C8_PostOrder ==
    RootIsDir =>
        /\ \A i \in Calls({"remove_dir"}) :
              \A p \in Entries(fs0) :
                  (Len(p) = Len(trace[i].path) + 1 /\ IsPrefix(trace[i].path, p)) =>
                      \E j \in Removals : j < i /\ trace[j].ok /\ trace[j].phys = p
        /\ rm.status = "ok" =>
              /\ \A p \in Entries(fs) : ~InTree(p)
              /\ Resolve(fs, rm.path, TRUE) = Err("ENOENT")
        /\ (\A i \in 1..Len(trace) : trace[i].ok) => rm.status # "err"

\* a/b/c has been removed: c, then b, then a
C8_Witness ==
    /\ RootIsDir /\ rm.status = "ok"
    /\ Len(rm.path) = 1
    /\ \E b \in Names, c \in Names :
          /\ Lookup(fs0, rm.path \o <<b>>).kind = "dir"
          /\ Lookup(fs0, rm.path \o <<b, c>>).kind = "dir"
          /\ \E i \in Removals, j \in Removals, k \in Removals :
                /\ i < j /\ j < k
                /\ trace[i].phys = rm.path \o <<b, c>>
                /\ trace[j].phys = rm.path \o <<b>>
                /\ trace[k].phys = rm.path

\* the directories from the given path down to the parent of q
AncestorsInTree(q) ==
    {SubSeq(q, 1, k) : k \in Len(rm.path)..(Len(q) - 1)}

IsDirectory(f, q) ==
    /\ Resolve(f, q, TRUE).ok
    /\ Lookup(f, Resolve(f, q, TRUE).val).kind = "dir"

\* C9: a failed call is the last call remove_dir_all makes; remove_dir_all
\* has then returned that call's error and holds no directory stream; every
\* directory from the given path down to the parent of the failing entry
\* still exists, and so does the given path when a call after
\* symlink_metadata failed; an entry removed by an earlier call is gone.
C9_FirstErrorAborts ==
    /\ \A i \in 1..Len(trace) :
          ~trace[i].ok =>
              /\ i = Len(trace)
              /\ rm.status = "err"
              /\ rm.err = trace[i].err
              /\ rm.stack = <<>>
              /\ \A q \in AncestorsInTree(trace[i].path) : IsDirectory(fs, q)
              /\ i > 1 => Resolve(fs, rm.path, FALSE).ok
    /\ rm.status = "err" => (trace # <<>> /\ ~trace[Len(trace)].ok)
    /\ \A i \in Removals : trace[i].ok => Lookup(fs, trace[i].phys).kind = "none"

\* a call failed below the given path after an entry had been removed
C9_Witness ==
    /\ rm.status = "err"
    /\ Len(trace[Len(trace)].path) > Len(rm.path)
    /\ \E i \in Removals : trace[i].ok
    /\ Entries(fs) # Entries(fs0)

\* C10: with another process mutating the tree between the native calls,
\* remove_dir_all on a real directory enumerates only directories of the
\* tree rooted at the given path and removes only entries of that tree.
C10_StaysInsideTheTree ==
    RootIsDir =>
        /\ \A d \in enumerated : InTree(d)
        /\ \A i \in Removals : trace[i].ok => InTree(trace[i].phys)

(***************************************************************************)
(* Claims about ReadDir and DirEntry, checked under SpecDir.               *)
(***************************************************************************)
PseudoNames == {<<Dot>>, <<Dot, Dot>>}

RealEntries(s) == SelectSeq(s, LAMBDA n : n \notin PseudoNames)

\* the native entries ReadDir::next has looked at
Consumed == IF rd.first.some THEN <<>> ELSE SubSeq(rd.stream, 1, rd.pos)

Iterating == rd.state \in {"open", "dropped"}

\* C11: ReadDir::next never yields "." or "..", wherever they stand in the
\* native sequence, and once the stream has ended without a native error
\* every other name of the sequence, the names that merely start with a dot
\* among them, has been yielded.
C11_PseudoEntriesFiltered ==
    /\ \A i \in 1..Len(rd.yielded) : rd.yielded[i] \notin PseudoNames
    /\ (Iterating /\ rd.done /\ ~rd.erred) =>
          \A i \in 1..Len(rd.stream) :
              rd.stream[i] \notin PseudoNames =>
                  \E j \in 1..Len(rd.yielded) : rd.yielded[j] = rd.stream[i]

\* windows: "." came from FindFirstFileW, "..." and ".a" later, both yielded
C11_Witness ==
    /\ backend = "windows" /\ rd.done /\ ~rd.erred
    /\ rd.stream[1] = <<Dot>>
    /\ rd.yielded = <<<<Dot, Dot, Dot>>, <<Dot, 97>>>>

\* C12: with no native error, the values yielded so far are the real entries
\* among the native entries looked at, in order, each once; when None is
\* returned all N real entries have been yielded, and every later call
\* returns None again.  The entry FindFirstFileW returned is yielded once.
C12_EachEntryOnce ==
    (Iterating /\ ~rd.erred) =>
        /\ rd.yielded = RealEntries(Consumed)
        /\ rd.done => /\ rd.yielded = RealEntries(rd.stream)
                      /\ rd.last = "None"

C12_Witness ==
    /\ backend = "windows" /\ rd.done /\ ~rd.erred
    /\ Len(rd.stream) = MaxStream
    /\ rd.stream[1] \notin PseudoNames
    /\ Len(rd.yielded) = 2
    /\ rd.calls = MaxNextCalls

\* whether the native entry in hand carried a recognized type discriminator
TypeInline == backend = "windows" \/ unix_d_type(rd.entry.val.e, dtype) # DT_UNKNOWN

C14_Original ==
    /\ rd.released <= 1
    /\ (rd.done \/ rd.state = "dropped") => rd.released = 1
    /\ rd.lateReads = 0

\* C14 as amended: the handle is released exactly once, by the drop of the
\* ReadDir, whether or not the stream was exhausted; until then it stays
\* open, also after None was returned, and no native read is issued on a
\* released handle.
C14_ReleasedOnceAtDrop ==
    /\ rd.released = IF rd.state = "dropped" THEN 1 ELSE 0
    /\ rd.lateReads = 0

C14_Witness ==
    /\ rd.state = "dropped" /\ rd.done /\ rd.released = 1
    /\ rd.calls > Len(rd.stream) + 1

(***************************************************************************)
(* Claims about copy, checked under SpecCopy.                              *)
(***************************************************************************)
CopyReturned == cp.status # "idle"

Issued(call) == \E i \in 1..Len(cp.calls) : cp.calls[i] = call

Before(a, b) ==
    \E i, j \in 1..Len(cp.calls) : i < j /\ cp.calls[i] = a /\ cp.calls[j] = b

ContentCopy == IF backend = "unix" THEN "io::copy" ELSE "CopyFileExW"

ContentCopyFailed ==
    /\ cp.status = "err"
    /\ cp.calls # <<>>
    /\ cp.calls[Len(cp.calls)] = ContentCopy

DestinationUntouched == cp.to = cp.to0 /\ cp.toPerm = cp.toPerm0

\* C15: when `from` is a directory, a special file or does not exist, copy
\* fails with InvalidInput, the native bulk-copy primitive is not invoked,
\* File::create is not called, and the destination is as it was.
C15_SourceCheckedFirst ==
    (CopyReturned /\ cp.from # "file") =>
        /\ cp.status = "err"
        /\ cp.err = "InvalidInput"
        /\ ~Issued("io::copy") /\ ~Issued("CopyFileExW") /\ ~Issued("File::create")
        /\ DestinationUntouched

\* C16 as stated: a successful copy has issued set_permissions on the
\* destination, after the content copy, with the source's permissions; a
\* failed content copy is followed by no set_permissions and its error is
\* returned.
C16_Original ==
    /\ cp.status = "ok" =>
          /\ Before(ContentCopy, "set_permissions")
          /\ cp.toPerm = cp.fromPerm
    /\ ContentCopyFailed => ~Issued("set_permissions")

\* C16 as amended: on unix the claim holds as stated, set_permissions being
\* the last call of a successful copy.  On windows copy issues CopyFileExW
\* and nothing else, never set_permissions: CopyFileExW itself carries the
\* source's attributes to the destination.  On both, a failed content copy
\* is followed by no call and its error is returned.
C16_PermissionsAfterContent ==
    /\ (backend = "unix" /\ cp.status = "ok") =>
          /\ Before("io::copy", "set_permissions")
          /\ cp.calls[Len(cp.calls)] = "set_permissions"
          /\ ~Before("set_permissions", "io::copy")
    /\ (backend = "windows" /\ CopyReturned) =>
          /\ cp.calls = <<"CopyFileExW">>
          /\ ~Issued("set_permissions")
    /\ cp.status = "ok" => (cp.to = "copied" /\ cp.toPerm = cp.fromPerm)
    /\ ContentCopyFailed =>
          /\ ~Issued("set_permissions")
          /\ cp.err \in {"EIO", "ERROR_IO_DEVICE", "ERROR_FILE_NOT_FOUND",
                         "ERROR_ACCESS_DENIED"}

\* a read-only source copied over a writable destination on unix
C16_Witness ==
    /\ backend = "unix" /\ cp.status = "ok"
    /\ cp.fromPerm = "ro" /\ cp.toPerm0 = "rw" /\ cp.toPerm = "ro"
    /\ Before("io::copy", "set_permissions")

(***************************************************************************)
(* Claims about FilePermissions and FileType, checked under SpecAttr.      *)
(***************************************************************************)
\* the bits set_readonly may change
ReadonlyBits == IF backend = "unix" THEN {1, 4, 7} ELSE {0}

\* read-only as the specification defines it
IsReadonly(bits) ==
    IF backend = "unix" THEN \A w \in {1, 4, 7} : w \notin bits ELSE 0 \in bits

SetReadonly(bits, b) ==
    IF backend = "unix" THEN unix_set_readonly(bits, b) ELSE windows_set_readonly(bits, b)

\* C17: after set_readonly(b), readonly() returns b; readonly() is true
\* exactly when no write bit is set (unix) or the read-only attribute is set
\* (windows); a second set_readonly(b) changes nothing.
C17_ReadonlyRoundTrip ==
    /\ perm.ro.some => perm.ro.val = IsReadonly(perm.bits)
    /\ (perm.arg.some /\ perm.ro.some) => perm.ro.val = perm.arg.val
    /\ perm.arg.some => SetReadonly(perm.bits, perm.arg.val) = perm.bits

\* a mode with group write only was made read-only and read back
C17_Witness ==
    /\ backend = "unix"
    /\ perm.before \cap {1, 4, 7} = {4}
    /\ perm.arg = Some(TRUE)
    /\ perm.ro = Some(TRUE)

\* C18: set_readonly leaves every bit outside 0o222 (unix), every attribute
\* other than FILE_ATTRIBUTE_READONLY (windows), as it was; on unix
\* set_readonly(false) sets the write bit of all three classes.
C18_OnlyWriteBitsChange ==
    perm.arg.some =>
        /\ perm.bits \ ReadonlyBits = perm.before \ ReadonlyBits
        /\ (backend = "unix" /\ ~perm.arg.val) => {1, 4, 7} \subseteq perm.bits

\* a hidden, archived directory was made read-only
C18_Witness ==
    /\ backend = "windows"
    /\ perm.arg = Some(TRUE)
    /\ perm.before = {1, 4, 5}
    /\ perm.bits = {0, 1, 4, 5}

\* the classification table of the specification
FileTypeTable(dir, reparse, tag) ==
    IF ~reparse THEN (IF dir THEN "Dir" ELSE "File")
    ELSE IF tag = IO_REPARSE_TAG_SYMLINK THEN (IF dir THEN "SymlinkDir" ELSE "SymlinkFile")
    ELSE IF tag = IO_REPARSE_TAG_MOUNT_POINT /\ dir THEN "MountPoint"
    ELSE "ReparsePoint"

\* C19: FileType::new gives, for every attribute word and reparse tag, the
\* type the table gives for (directory bit, reparse bit, tag); is_symlink
\* holds exactly for SymlinkFile, SymlinkDir and the junction, is_dir exactly
\* for Dir, is_file exactly for File, so at most one of the three holds.
C19_FileTypeClassification ==
    perm.ft.some =>
        LET ft == perm.ft.val
        IN  /\ ft = FileTypeTable(4 \in perm.bits, 10 \in perm.bits, perm.tag)
            /\ windows_is_symlink(ft) <=> ft \in {"SymlinkFile", "SymlinkDir", "MountPoint"}
            /\ windows_is_dir(ft) <=> ft = "Dir"
            /\ windows_is_file(ft) <=> ft = "File"
            /\ Cardinality({q \in {"s", "d", "f"} :
                              \/ q = "s" /\ windows_is_symlink(ft)
                              \/ q = "d" /\ windows_is_dir(ft)
                              \/ q = "f" /\ windows_is_file(ft)}) <= 1

\* a mount-point tag without the directory bit is a ReparsePoint
C19_Witness ==
    /\ perm.ft = Some("ReparsePoint")
    /\ perm.tag = IO_REPARSE_TAG_MOUNT_POINT
    /\ 4 \notin perm.bits

(***************************************************************************)
(* Claims about Part VI, checked under SpecLink.                           *)
(***************************************************************************)
LinkRead ==
    /\ ln.last.some
    /\ ln.last.val.data.some
    /\ ln.args[ln.last.val.path].some
    /\ ln.last.val.res.ok

GivenTarget == ln.args[ln.last.val.path].val

\* C20: after soft_link(target, link) succeeded, a read_link(link) that
\* succeeds returns exactly the target soft_link was given: not made
\* absolute, not rewritten, and not replaced by the target of a second link
\* that the target names.
C20_ReadLinkReturnsTarget ==
    LinkRead => ln.last.val.res.val = GivenTarget

\* the same on the unix backend alone
C20_UnixReadLinkReturnsTarget ==
    (backend = "unix" /\ LinkRead) => ln.last.val.res.val = GivenTarget

C20_UnixWitness ==
    /\ backend = "unix"
    /\ LinkRead
    /\ GivenTarget \in LinkNames
    /\ ln.links[GivenTarget].some
    /\ ln.last.val.res.val = GivenTarget

NtPrefix == <<BACKSLASH, QUESTION, QUESTION, BACKSLASH>>

\* read_link was called on a windows path that holds a reparse point and the
\* native calls did not fail
ReparseRead ==
    /\ backend = "windows"
    /\ ln.last.some
    /\ ln.last.val.data.some
    /\ ln.last.val.res \notin {Err("ERROR_ACCESS_DENIED")}

ReadData == ln.last.val.data.val

ReadRelative == ReadData.ReparseTag = IO_REPARSE_TAG_SYMLINK /\ ReadData.relative

Decoded == ReadData.ReparseTag \in {IO_REPARSE_TAG_SYMLINK, IO_REPARSE_TAG_MOUNT_POINT}

FailedCall(i) == nc.calls[i].ret \notin {0, EINTR}

\* the i-th call was the last one and the caller received its error
ReturnedAtOnce(i) ==
    /\ i = Len(nc.calls)
    /\ nc.status = "done"
    /\ nc.res = Some(Err(nc.calls[i].ret))

FlagRefused(i) ==
    /\ nc.call = "CreateSymbolicLinkW"
    /\ i = 1
    /\ nc.calls[i].ret = ERROR_INVALID_PARAMETER

C23_NeverInterrupted ==
    (backend = "unix" /\ nc.status = "done") => nc.res # Some(Err(EINTR))

(***************************************************************************)
(* Claims about Part VIII, checked under SpecTime.                         *)
(***************************************************************************)
\* C24: where the platform has no creation time, created() fails with an
\* error of kind Unsupported, and modified() and accessed() succeed.
C24_CreatedUnsupported ==
    /\ (md.asked = "created" /\ ~HasBirthtime(md.target_os)) =>
          /\ ~md.res.val.ok
          /\ md.res.val.err.kind = "Unsupported"
    /\ md.asked = "modified" => md.res.val = Ok(md.st_mtime)
    /\ md.asked = "accessed" => md.res.val = Ok(md.st_atime)

(***************************************************************************)
(* A further claim about Part I, checked under SpecOpen.                   *)
(***************************************************************************)
NativeFlags == openRes.native.val.flags

\* C25: on the POSIX backend, for every accepted OpenOptions and every
\* custom_flags value, the O_ACCMODE bits of the flags passed to open64 are
\* those of the resolved access mode, and every bit of the resolved access
\* mode, of the creation disposition and of O_CLOEXEC is set in those flags.
C25_CustomFlagsKeepAccessMode ==
    (backend = "unix" /\ Accepted) =>
       /\ NativeFlags \cap O_ACCMODE = openRes.access.val \cap O_ACCMODE
       /\ (O_CLOEXEC \cup openRes.access.val \cup openRes.creation.val) \subseteq NativeFlags

C25_Witness ==
    /\ backend = "unix" /\ Accepted
    /\ opts.custom_flags \cap O_ACCMODE # {}
    /\ opts.custom_flags \cap O_ACCMODE # openRes.access.val \cap O_ACCMODE
    /\ openRes.creation.val # {}

(***************************************************************************)
(* Claims about Part IX, checked under SpecMode.                           *)
(***************************************************************************)
\* C26 as stated: mode() returns the u32 last given to from_mode or set_mode,
\* whatever it is and whatever the mode was before.
C26_Original ==
    pm.got.some => pm.got.val = pm.arg

\* C26 (amended): mode() returns the u32 last given to from_mode or set_mode
\* reduced to the width of mode_t (the bits below 2^16 where mode_t has 16
\* bits, all of them where it has 32), whatever the mode was before: set_mode
\* replaces every bit.
C26_ModeRoundTripInModeT ==
    /\ pm.op # "" => pm.mode = as_mode_t(pm.arg, pm.width)
    /\ pm.got.some => pm.got.val = as_mode_t(pm.arg, pm.width)
    /\ (pm.got.some /\ pm.width = 32) => pm.got.val = pm.arg

C26_Witness ==
    /\ pm.op = "set_mode"
    /\ pm.got.some
    /\ pm.before \ pm.arg # {}
    /\ pm.arg \ pm.before # {}
    /\ pm.width = 16
    /\ 16 \in pm.arg

(***************************************************************************)
(* Further claims about remove_dir_all.                                    *)
(***************************************************************************)
\* the entry a path names, its last component not followed, is a directory
RealDirectory(f, q) ==
    /\ Resolve(f, q, FALSE).ok
    /\ Lookup(f, Resolve(f, q, FALSE).val).kind = "dir"

\* the first activation of remove_dir_all_recursive is on the given path,
\* every further one on a child of the activation before it, and that child
\* is a real directory of the tree as it was
FramesAreNestedDirs ==
    \A i \in DOMAIN rm.stack :
       /\ Len(rm.stack[i].path) = Len(rm.path) + i - 1
       /\ IsPrefix(rm.path, rm.stack[i].path)
       /\ i > 1 => RealDirectory(fs0, rm.stack[i].path)

\* a link of the tree whose target is a directory above it
LinkToAncestor(p) ==
    /\ InTree(p)
    /\ DirLink(fs0, p)
    /\ IsPrefix(TargetOf(fs0, p), p)

\* C27: with no other process, a started remove_dir_all returns, whatever
\* links to ancestors or to each other the tree holds, and its recursion
\* enters only real directories, one level per activation.
C27_TerminatesWithinRealDirs ==
    /\ Started ~> Returned
    /\ []FramesAreNestedDirs

C27_Witness ==
    /\ rm.status = "ok"
    /\ RootIsDir
    /\ \E p \in Entries(fs0) : LinkToAncestor(p)
    /\ \E i \in Calls({"read_dir"}) : Len(trace[i].path) > Len(rm.path)

(***************************************************************************)
(* Claims about Part X, checked under SpecBuffer.                          *)
(***************************************************************************)
\* C28: a read_link that returns Ok returns the whole stored target, whatever
\* its length (the capacity exactly included); the native readlink is called
\* again exactly when it filled the buffer, each time with a strictly larger
\* capacity, and the result is returned from a call that read fewer bytes
\* than the capacity.
C28_WholeTargetReturned ==
    /\ (rl.status = "done" /\ rl.res.val.ok) =>
          /\ rl.res.val.val = rl.target
          /\ Len(rl.target) < rl.caps[Len(rl.caps)]
    /\ \A i \in DOMAIN rl.caps :
          i < Len(rl.caps) =>
             /\ rl.caps[i] < rl.caps[i + 1]
             /\ rl.caps[i] <= Len(rl.target)
    /\ (rl.status = "loop" /\ rl.caps # <<>>) =>
          /\ rl.caps[Len(rl.caps)] < rl.capacity
          /\ rl.caps[Len(rl.caps)] <= Len(rl.target)

C28_Witness ==
    /\ rl.status = "done"
    /\ rl.res.val = Ok(rl.target)
    /\ Len(rl.target) = READLINK_CAPACITY
    /\ Len(rl.caps) = 2

\* C29: during remove_dir_all the stream of a directory is closed when
\* remove_dir is about to be issued on it and stays closed; the open streams
\* belong to activations in progress, one each at most, so they are never
\* more than the recursion depth; when remove_dir_all has returned, with Ok
\* or with an error from any depth, no stream is open.
C29_StreamsClosed ==
    /\ At("remove_dir") => Len(rm.stack) \notin rm.open
    /\ rm.open \subseteq DOMAIN rm.stack
    /\ Cardinality(rm.open) <= Len(rm.stack)
    /\ Returned => rm.open = {}

\* an error two levels down, met while both streams were open
C29_Witness ==
    /\ rm.status = "err"
    /\ Cardinality(Calls({"read_dir"})) >= 2
    /\ \A i \in Calls({"read_dir"}) : trace[i].ok
    /\ trace[Len(trace)].call \in {"remove_file", "next"}
    /\ Len(trace[Len(trace)].path) = Len(rm.path) + 2

(***************************************************************************)
(* Claims about Part XI, checked under SpecAlias.                          *)
(***************************************************************************)
\* C30: after copy(from, to) on the POSIX backend the source file holds the
\* bytes it held before the call, also when `to` names the same file.
C30_SourceUnchanged ==
    al.status # "idle" => al.inodes[1] = al.src0

\* C30, the part that holds: when `to` names another file, or none, the
\* source keeps its bytes and a successful copy returns their count.
C30_OtherFileSourceUnchanged ==
    (al.status # "idle" /\ al.kind \in {"absent", "other file"}) =>
        /\ al.inodes[1] = al.src0
        /\ al.status = "ok" => (al.inodes[2] = al.src0 /\ al.ret = Len(al.src0))

C30_OtherFileWitness ==
    al.status = "ok" /\ al.kind = "other file" /\ al.src0 = <<1, 2>>

====
